---- MODULE Spec2Model ----
(***************************************************************************)
(* PriceMatchEngine: the house-brand matcher                               *)
(* (src/apps/house_brand_engine/app.py) and the price-match matcher        *)
(* (src/app.py).                                                           *)
(*                                                                         *)
(* Text.  A Python string is modelled as a sequence of atoms; an atom is   *)
(* an indivisible fragment of text (a word, a number, one punctuation      *)
(* mark, a Thai fragment).  TLA+ strings are ASCII, so a Thai fragment is  *)
(* written th_<transliteration>; the fragment it stands for is given in    *)
(* the table below.  The atoms are cut so that every term the code looks   *)
(* for begins and ends on an atom boundary: `t in s` is then "t is a       *)
(* contiguous subsequence of s".                                           *)
(*                                                                         *)
(*    th_lo      ล้อ        (wheel)                                         *)
(*    th_mai     ไม่        (not)      th_mai th_mibrek = ไม่มีเบรก          *)
(*    th_mibrek  มีเบรก     (has brake)                                     *)
(*    th_lod     หลอด      (bulb)                                          *)
(*    th_chorakhe จระเข้    (a brand)                                       *)
(*    th_mibrek2 มีเบรค     (has brake, second spelling)                    *)
(*    th_gallon  แกลลอน     th_galon  แกลอน      (gallon)                   *)
(*    th_lit     ลิตร       th_milli th_lit = มิลลิลิตร                       *)
(*    th_kilokram กิโลกรัม   th_kk "." = กก.                                 *)
(*    th_m "."   ม.        th_m th_l "." = มล.    th_s th_m "." = ซม.        *)
(*    th_met     เมตร      th_senti th_met = เซนติเมตร                       *)
(*    th_niw     นิ้ว (inch)   th_watt  วัตต์ (watt)                          *)
(*    th_kuengngao กึ่งเงา   th_nian  เนียน    th_dan  ด้าน   (finishes)       *)
(*    th_jotashield โจตาชิลด์   th_flex เฟล็กซ์   (a paint line)               *)
(*    th_run     รุ่น (model)    th_khanat  ขนาด (size)                      *)
(*                                                                         *)
(* Numbers.  Python floats are modelled by exact integers: a price is an   *)
(* integer amount, a percentage comparison a / b <= p / 100 is the integer *)
(* comparison 100 * a <= p * b, and a score with fractional weights is     *)
(* kept multiplied by 100.                                                 *)
(***************************************************************************)
EXTENDS Integers, Sequences, FiniteSets, TLC

---------------------------------------------------------------------------
(* Python str and list primitives                                          *)

\* s[a:b] of a sequence, 0-based half-open, clipped as Python clips slices
Slice(s, a, b) ==
    LET lo == IF a < 0 THEN 0 ELSE a
        hi == IF b > Len(s) THEN Len(s) ELSE b
    IN  IF hi <= lo THEN << >> ELSE SubSeq(s, lo + 1, hi)

\* t in s (substring test); the empty string is in every string
Contains(s, t) ==
    \E i \in 0..(Len(s) - Len(t)) : Slice(s, i, i + Len(t)) = t

\* s.startswith(t)
StartsWith(s, t) == Len(t) <= Len(s) /\ Slice(s, 0, Len(t)) = t

\* s.endswith(t)
EndsWith(s, t) == Len(t) <= Len(s) /\ Slice(s, Len(s) - Len(t), Len(s)) = t

\* str.upper() and str.lower() on one atom; only the Latin letters have case
UpperAtom(a) ==
    CASE a = "toa"  -> "TOA"
      [] a = "nash" -> "NASH"
      [] a = "json" -> "JSON"
      [] a = "jotun" -> "JOTUN"
      [] a = "jotashield" -> "JOTASHIELD"
      [] a = "flex" -> "FLEX"
      [] a = "tough" -> "TOUGH"
      [] a = "shield" -> "SHIELD"
      [] a = "futureshield" -> "FUTURESHIELD"
      [] a = "shark" -> "SHARK"
      [] a = "sharks" -> "SHARKS"
      [] a = "paint" -> "PAINT"
      [] a = "tools" -> "TOOLS"
      [] OTHER      -> a

LowerAtom(a) ==
    CASE a = "TOA"     -> "toa"
      [] a = "NASH"    -> "nash"
      [] a = "HOMEPRO" -> "homepro"
      [] a = "W"       -> "w"
      [] a = "JSON"    -> "json"
      [] a = "JOTUN"   -> "jotun"
      [] a = "JOTASHIELD" -> "jotashield"
      [] a = "FLEX"    -> "flex"
      [] a = "TOUGH"   -> "tough"
      [] a = "SHIELD"  -> "shield"
      [] a = "FUTURESHIELD" -> "futureshield"
      [] a = "SHARK"   -> "shark"
      [] a = "SHARKS"  -> "sharks"
      [] a = "PAINT"   -> "paint"
      [] a = "TOOLS"   -> "tools"
      [] OTHER         -> a

Upper(s) == [i \in 1..Len(s) |-> UpperAtom(s[i])]
Lower(s) == [i \in 1..Len(s) |-> LowerAtom(s[i])]

\* whitespace: the blank and the line feed
IsSpace(a) == a \in {" ", "LF"}

RECURSIVE LStrip(_)
LStrip(s) == IF s # << >> /\ IsSpace(s[1]) THEN LStrip(Tail(s)) ELSE s

RECURSIVE RStrip(_)
RStrip(s) ==
    IF s # << >> /\ IsSpace(s[Len(s)]) THEN RStrip(Slice(s, 0, Len(s) - 1)) ELSE s

\* str.strip()
Strip(s) == LStrip(RStrip(s))

\* str.rstrip(c) for a one-character c
RECURSIVE RStripChar(_, _)
RStripChar(s, c) ==
    IF s # << >> /\ s[Len(s)] = c THEN RStripChar(Slice(s, 0, Len(s) - 1), c) ELSE s

\* str.split(c)[0]: the text before the first c, or all of s
RECURSIVE SplitFirst(_, _)
SplitFirst(s, c) ==
    IF s = << >> \/ s[1] = c THEN << >>
    ELSE <<s[1]>> \o SplitFirst(Tail(s), c)

\* str.replace(old, new): every non-overlapping occurrence, left to right
RECURSIVE Replace(_, _, _)
Replace(s, old, new) ==
    IF s = << >> \/ old = << >> THEN s
    ELSE IF StartsWith(s, old) THEN new \o Replace(Slice(s, Len(old), Len(s)), old, new)
    ELSE <<s[1]>> \o Replace(Tail(s), old, new)

\* the 0-based position of the first occurrence of t in s at or after i, or -1
RECURSIVE Find(_, _, _)
Find(s, t, i) ==
    IF i + Len(t) > Len(s) THEN -1
    ELSE IF Slice(s, i, i + Len(t)) = t THEN i
    ELSE Find(s, t, i + 1)

Abs(x) == IF x < 0 THEN -x ELSE x
Min(a, b) == IF a < b THEN a ELSE b
Max(a, b) == IF a > b THEN a ELSE b

\* list[i] as Python evaluates it for -len <= i < len (negative i counts from the end)
PyIndex(s, i) == IF i >= 0 THEN s[i + 1] ELSE s[Len(s) + i + 1]

\* list[i] raises IndexError
IndexError(s, i) == i >= Len(s) \/ i < -Len(s)

---------------------------------------------------------------------------
(* Brand resolution, house-brand engine                                    *)

\* known_brands in the order of sorted(known_brands, key=len, reverse=True):
\* longest first, equally long brands in their order in the list
KnownBrandsByLength == <<
    <<"GIANT", " ", "KINGKONG">>, <<"BLACK+DECKER">>, <<"MITSUBISHI">>,
    <<"MASTERWOOD">>, <<"PANASONIC">>, <<"MAX", " ", "LIGHT">>,
    <<"CHAMPION">>, <<"ELEPHANT">>, <<"ECO", " ", "DOOR">>, <<"CAPTAIN">>,
    <<"STANLEY">>, <<"PHILIPS">>, <<"LAMPTAN">>, <<"HITACHI">>,
    <<"TOSHIBA">>, <<"SAMSUNG">>, <<"BESBOND">>, <<"FURDINI">>,
    <<"ANYHOME">>, <<"AT.INDY">>, <<"NL", " ", "HOME">>, <<"LUZINO">>,
    <<"NIPPON">>, <<"DAVIES">>, <<"th_chorakhe">>, <<"HAFELE">>,
    <<"MAKITA">>, <<"DEWALT">>, <<"BATHIC">>, <<"SCOTCH">>, <<"DUNLOP">>,
    <<"MATALL">>, <<"STACKO">>, <<"SPRING">>, <<"MODERN">>, <<"FOTINI">>,
    <<"SAKURA">>, <<"FONTE">>, <<"BEGER">>, <<"JOTUN">>, <<"DULUX">>,
    <<"SHARK">>, <<"BARCO">>, <<"DELTA">>, <<"SOLEX">>, <<"BOSCH">>,
    <<"RACER">>, <<"BOSNY">>, <<"CLOSE">>, <<"HACHI">>, <<"SOMIC">>,
    <<"SUPER">>, <<"CPAC">>, <<"YALE">>, <<"COLT">>, <<"ISON">>, <<"UPVC">>,
    <<"KING">>, <<"KECH">>, <<"WAVE">>, <<"NASH">>, <<"TOA">>, <<"JBP">>,
    <<"SCG">>, <<"TPI">>, <<"EVE">>, <<"API">>, <<"JCJ">>, <<"LG">>,
    <<"3M">>, <<"BF">>, <<"LE">> >>

\* the characters of [a-zA-Z0-9-]: a word atom of a URL path, or the hyphen
IsSlugAtom(a) ==
    a \in {"-", "p", "toa", "nash", "kech", "lamptan", "12345", "led"}

\* the longest prefix of s matched by [a-zA-Z0-9-]+
RECURSIVE SlugRun(_)
SlugRun(s) ==
    IF s # << >> /\ IsSlugAtom(s[1]) THEN <<s[1]>> \o SlugRun(Tail(s)) ELSE << >>

\* url_brands of the boonthavorn.com branch: slug -> brand ('' when absent)
BoonthavornBrands(slug) ==
    CASE slug = <<"max">>        -> <<"MAX", " ", "LIGHT">>
      [] slug = <<"lamptan">>    -> <<"LAMPTAN">>
      [] slug = <<"anyhome">>    -> <<"ANYHOME">>
      [] slug = <<"at">>         -> <<"AT.INDY">>
      [] slug = <<"hachi">>      -> <<"HACHI">>
      [] slug = <<"somic">>      -> <<"SOMIC">>
      [] slug = <<"bf">>         -> <<"BF">>
      [] slug = <<"le">>         -> <<"LE">>
      [] slug = <<"super">>      -> <<"SUPER">>
      [] slug = <<"king">>       -> <<"KING">>
      [] slug = <<"nl">>         -> <<"NL", " ", "HOME">>
      [] slug = <<"sakura">>     -> <<"SAKURA">>
      [] slug = <<"toa">>        -> <<"TOA">>
      [] slug = <<"jupiter">>    -> <<"JUPITER">>
      [] slug = <<"jorakay">>    -> <<"JORAKAY">>
      [] slug = <<"mex">>        -> <<"MEX">>
      [] slug = <<"yale">>       -> <<"YALE">>
      [] slug = <<"hitachi">>    -> <<"HITACHI">>
      [] slug = <<"mitsubishi">> -> <<"MITSUBISHI">>
      [] slug = <<"panasonic">>  -> <<"PANASONIC">>
      [] slug = <<"hafele">>     -> <<"HAFELE">>
      [] slug = <<"scg">>        -> <<"SCG">>
      [] OTHER                   -> << >>

\* url_brands of the homepro.co.th branch: slug -> brand ('HOMEPRO' when absent)
HomeproBrands(slug) ==
    CASE slug = <<"kech">>    -> <<"KECH">>
      [] slug = <<"matall">>  -> <<"MATALL">>
      [] slug = <<"stacko">>  -> <<"STACKO">>
      [] slug = <<"furdini">> -> <<"FURDINI">>
      [] slug = <<"spring">>  -> <<"SPRING">>
      [] slug = <<"wave">>    -> <<"WAVE">>
      [] OTHER                -> <<"HOMEPRO">>

\* the text after the first occurrence of t in s (t occurs in s)
After(s, t) == Slice(s, Find(s, t, 0) + Len(t), Len(s))

\* extract_brand_from_url(url)
extract_brand_from_url(url) ==
    LET url_lower == Lower(url)
        bn   == <<"boonthavorn.com", "/">>
        hp   == <<"homepro.co.th", "/">>
        \* boonthavorn\.com/([a-zA-Z0-9-]+)
        bnGroup == SlugRun(After(url_lower, bn))
        \* homepro\.co\.th/[^/]+/([a-zA-Z0-9-]+)
        hpRest  == After(url_lower, hp)
        hpSeg1  == SplitFirst(hpRest, "/")
        hpGroup == IF hpSeg1 # << >> /\ Len(hpSeg1) < Len(hpRest)
                   THEN SlugRun(Slice(hpRest, Len(hpSeg1) + 1, Len(hpRest)))
                   ELSE << >>
    IN  IF url = << >> THEN << >>
        ELSE IF Contains(url_lower, bn) /\ bnGroup # << >>
             THEN BoonthavornBrands(SplitFirst(bnGroup, "-"))
        ELSE IF Contains(url_lower, hp)
             THEN IF hpGroup # << >> THEN HomeproBrands(SplitFirst(hpGroup, "-"))
                  ELSE <<"HOMEPRO">>
        ELSE IF Contains(url_lower, <<"dohome.co.th", "/">>)
             THEN IF Contains(url_lower, <<"nash">>) THEN <<"NASH">>
                  ELSE IF Contains(url_lower, <<"eve">>) THEN <<"EVE">>
                  ELSE IF Contains(url_lower, <<"lamptan">>) THEN <<"LAMPTAN">>
                  ELSE IF Contains(url_lower, <<"modern">>) THEN <<"MODERN">>
                  ELSE IF Contains(url_lower, <<"fotini">>) THEN <<"FOTINI">>
                  ELSE <<"DOHOME">>
        ELSE IF Contains(url_lower, <<"globalhouse.co.th", "/">>)
             THEN <<"GLOBALHOUSE">>
        ELSE << >>

\* the first brand of the sorted list that occurs in name_upper, '' if none
RECURSIVE FirstBrandIn(_, _)
FirstBrandIn(brands, name_upper) ==
    IF brands = << >> THEN << >>
    ELSE IF Contains(name_upper, Head(brands)) THEN Head(brands)
    ELSE FirstBrandIn(Tail(brands), name_upper)

\* extract_brand(product_name, explicit_brand, product_url)
extract_brand(product_name, explicit_brand, product_url) ==
    IF explicit_brand # << >> THEN Strip(Upper(explicit_brand))
    ELSE IF product_url # << >> /\ extract_brand_from_url(product_url) # << >>
         THEN extract_brand_from_url(product_url)
    ELSE FirstBrandIn(KnownBrandsByLength, Upper(product_name))

---------------------------------------------------------------------------
(* Attribute extraction: extract_size_specs                                *)

\* the decimal digits of the model's number atoms, and their integer values
NumValue == ("0" :> 0) @@ ("1" :> 1) @@ ("2" :> 2) @@ ("3" :> 3) @@ ("4" :> 4)
            @@ ("5" :> 5) @@ ("6" :> 6) @@ ("7" :> 7) @@ ("8" :> 8) @@ ("9" :> 9)
            @@ ("10" :> 10) @@ ("15" :> 15) @@ ("16" :> 16) @@ ("49" :> 49) @@ ("50" :> 50)
            @@ ("59" :> 59) @@ ("60" :> 60) @@ ("90" :> 90)

IsNumber(a) == a \in DOMAIN NumValue

\* a number atom read as the digits after a decimal point, in thousandths
FracMilli(a) == IF NumValue[a] < 10 THEN 100 * NumValue[a] ELSE 10 * NumValue[a]

\* the Latin word atoms: their length in characters; all of them are letters
\* but for the ones listed in HasDigit
WordLen == ("TOA" :> 3) @@ ("NASH" :> 4) @@ ("toa" :> 3) @@ ("nash" :> 4)
           @@ ("W" :> 1) @@ ("w" :> 1) @@ ("HOMEPRO" :> 7)

IsLatinWord(a) == a \in DOMAIN WordLen

\* [A-Z0-9] atoms: Latin words and numbers
IsAlnum(a) == IsLatinWord(a) \/ IsNumber(a)

AlnumLen(a) == IF IsLatinWord(a) THEN WordLen[a] ELSE IF NumValue[a] < 10 THEN 1 ELSE 2

\* the number of atoms of s at 0-based position i matched by \d+(?:\.\d+)?
\* (0 when there is no number at i)
NumLen(s, i) ==
    IF i < Len(s) /\ IsNumber(s[i + 1])
    THEN IF i + 2 < Len(s) /\ s[i + 2] = "." /\ IsNumber(s[i + 3]) THEN 3 ELSE 1
    ELSE 0

\* the position after the whitespace that starts at i (\s*)
RECURSIVE SkipSpaces(_, _)
SkipSpaces(s, i) == IF i < Len(s) /\ IsSpace(s[i + 1]) THEN SkipSpaces(s, i + 1) ELSE i

\* (\d+(?:\.\d+)?)\s*(unit) matches at i with a number of n atoms: the optional
\* fraction is tried first, then the integer alone
NumUnitAt(s, i, n, units) ==
    /\ n > 0 /\ n <= NumLen(s, i) /\ n # 2
    /\ SkipSpaces(s, i + n) < Len(s)
    /\ s[SkipSpaces(s, i + n) + 1] \in units

\* re.search of that pattern: <<i, n>> of the leftmost match, <<-1, 0>> if none
RECURSIVE NumUnitSearch(_, _, _)
NumUnitSearch(s, i, units) ==
    IF i >= Len(s) THEN <<-1, 0>>
    ELSE IF NumUnitAt(s, i, 3, units) THEN <<i, 3>>
    ELSE IF NumUnitAt(s, i, 1, units) THEN <<i, 1>>
    ELSE NumUnitSearch(s, i + 1, units)

\* float() of the number text num (one atom, or integer "." fraction), in thousandths
FloatMilli(num) ==
    IF Len(num) = 3 THEN 1000 * NumValue[num[1]] + FracMilli(num[3])
    ELSE 1000 * NumValue[num[1]]

\* re.search(r'(\d+(?:\.\d+)?)', value): the first number of a spec value, << >> if
\* the value holds no digit
RECURSIVE FirstNumber(_, _)
FirstNumber(v, i) ==
    IF i >= Len(v) THEN << >>
    ELSE IF NumLen(v, i) > 0 THEN Slice(v, i, i + NumLen(v, i))
    ELSE FirstNumber(v, i + 1)

\* re.search(r'(\d+)', value): the first run of digits of a spec value
FirstInteger(v) == Slice(FirstNumber(v, 0), 0, 1)

VolumeUnits == {"L", "th_lit", "th_gallon", "GAL", "ML", "KG"}

\* the canonical unit of the volume key
VolumeUnit(u) ==
    CASE u \in {"th_lit", "L"}      -> "L"
      [] u \in {"th_gallon", "GAL"} -> "GAL"
      [] OTHER                      -> u

WattUnits == {"W", "w", "th_watt", "WATT", "watt"}

NumericUnits == {"th_niw", "th_met", "th_watt", "W", "w", "CM", "M", "MM"}

\* the unit the alternation (...|W|CM|M|MM|") captures, upper-cased: M wins over MM
NumericUnit(u) == IF u = "MM" THEN "M" ELSE UpperAtom(u)

\* every non-overlapping match of (\d+(?:\.\d+)?)\s*(unit), left to right, as
\* (float(value), unit.upper())
RECURSIVE NumericValues(_, _)
NumericValues(s, i) ==
    LET m == NumUnitSearch(s, i, NumericUnits)
        u == SkipSpaces(s, m[1] + m[2])
    IN  IF m[1] < 0 THEN << >>
        ELSE <<<<FloatMilli(Slice(s, m[1], m[1] + m[2])), NumericUnit(s[u + 1])>>>>
             \o NumericValues(s, u + 1)

\* \b before position i: the start of the text, or a preceding atom that is not
\* a word character
BoundaryBefore(s, i) == i = 0 \/ ~IsAlnum(s[i])
BoundaryAfter(s, i) == i >= Len(s) \/ ~IsAlnum(s[i + 1])

\* the maximal run of [A-Z0-9] atoms that starts at i: its length in atoms
RECURSIVE AlnumRun(_, _)
AlnumRun(s, i) == IF i < Len(s) /\ IsAlnum(s[i + 1]) THEN 1 + AlnumRun(s, i + 1) ELSE 0

RECURSIVE CharLen(_)
CharLen(s) == IF s = << >> THEN 0 ELSE AlnumLen(s[1]) + CharLen(Tail(s))

\* \b([A-Z]{1,3}[\-\s]?[A-Z0-9]{2,10}(?:[\-/][A-Z0-9]+)?)\b at the word atom at i:
\* the number of atoms matched (0: no match).  A word of up to three letters
\* takes a separator and the following run of 2 to 10 letters and digits; if
\* that fails, a word of 3 to 13 characters matches alone.
IdentifierLen(s, i) ==
    LET w    == s[i + 1]
        sep  == IF i + 1 < Len(s) /\ s[i + 2] \in {" ", "-"} THEN 1 ELSE 0
        run  == AlnumRun(s, i + 1 + sep)
        y    == Slice(s, i + 1 + sep, i + 1 + sep + run)
    IN  IF ~(i < Len(s) /\ IsLatinWord(w) /\ BoundaryBefore(s, i)) THEN 0
        ELSE IF WordLen[w] <= 3 /\ run > 0 /\ CharLen(y) >= 2 /\ CharLen(y) <= 10
             THEN 1 + sep + run
        ELSE IF WordLen[w] >= 3 /\ WordLen[w] <= 13 /\ BoundaryAfter(s, i + 1) THEN 1
        ELSE 0

\* re.findall of the identifier pattern over the upper-cased name
RECURSIVE FindIdentifiers(_, _)
FindIdentifiers(s, i) ==
    IF i >= Len(s) THEN << >>
    ELSE IF IdentifierLen(s, i) > 0
         THEN <<Slice(s, i, i + IdentifierLen(s, i))>>
              \o FindIdentifiers(s, i + IdentifierLen(s, i))
    ELSE FindIdentifiers(s, i + 1)

\* the non_models stoplist
NonModels == {<<"LED">>, <<"WPC">>, <<"PVC">>, <<"USB">>, <<"SMD">>, <<"MDF">>,
              <<"ABS">>, <<"DIY">>, <<"PRO">>, <<"MAX">>, <<"ECO">>}

\* the length in characters of an identifier (separators count one)
RECURSIVE IdChars(_)
IdChars(id) ==
    IF id = << >> THEN 0
    ELSE (IF IsAlnum(id[1]) THEN AlnumLen(id[1]) ELSE 1) + IdChars(Tail(id))

\* clean_ids: the identifiers outside the stoplist that are longer than 2
CleanIds(ids) == SelectSeq(ids, LAMBDA id : id \notin NonModels /\ IdChars(id) > 2)

WattagePart(name_orig) ==
    LET m == NumUnitSearch(name_orig, 0, WattUnits)
    IN  IF m[1] < 0 THEN <<>>
        \* f"{int(float(watt_val))}W": the fraction is dropped
        ELSE <<<<"wattage", <<name_orig[m[1] + 1], "W">>>>>>

VolumePart(name) ==
    LET m == NumUnitSearch(name, 0, VolumeUnits)
        u == SkipSpaces(name, m[1] + m[2])
    IN  IF m[1] < 0 THEN <<>>
        ELSE <<<<"volume", Slice(name, m[1], m[1] + m[2]) \o <<" ", VolumeUnit(name[u + 1])>>>>>>

InchUnits == {"th_niw", "INCH", "inch"}

\* (\d+/\d+)\s*(unit) matches at i
FracUnitAt(s, i, units) ==
    /\ i + 2 < Len(s)
    /\ IsNumber(s[i + 1]) /\ s[i + 2] = "/" /\ IsNumber(s[i + 3])
    /\ SkipSpaces(s, i + 3) < Len(s)
    /\ s[SkipSpaces(s, i + 3) + 1] \in units

\* re.search of the fraction pattern: the position of the leftmost match, -1
\* if none
RECURSIVE FracUnitSearch(_, _, _)
FracUnitSearch(s, i, units) ==
    IF i >= Len(s) THEN -1
    ELSE IF FracUnitAt(s, i, units) THEN i
    ELSE FracUnitSearch(s, i + 1, units)

\* the inch size: a fraction is looked for first and kept as written, then a
\* decimal number
SizeInchPart(name_orig) ==
    LET f == FracUnitSearch(name_orig, 0, InchUnits)
        m == NumUnitSearch(name_orig, 0, InchUnits)
    IN  IF f >= 0 THEN <<<<"size_inch", Slice(name_orig, f, f + 3) \o <<" ", "inch">>>>>>
        ELSE IF m[1] < 0 THEN <<>>
        ELSE <<<<"size_inch", Slice(name_orig, m[1], m[1] + m[2]) \o <<" ", "inch">>>>>>

BrakePart(name_orig, name) ==
    IF \/ Contains(name_orig, <<"th_mai", "th_mibrek">>)
       \/ Contains(name_orig, <<"th_mai", "th_mibrek2">>)
       \/ Contains(Lower(name), <<"no", " ", "brake">>)
    THEN <<<<"brake", <<"NO_BRAKE">>>>>>
    ELSE IF \/ Contains(name_orig, <<"th_mibrek">>)
            \/ Contains(name_orig, <<"th_mibrek2">>)
            \/ Contains(Lower(name), <<"with", " ", "brake">>)
    THEN <<<<"brake", <<"HAS_BRAKE">>>>>>
    ELSE <<>>

\* a key is set only when its value was found
KeyEntry(key, value) == IF value = << >> THEN << >> ELSE <<<<key, value>>>>

IdentifiersPart(name) == KeyEntry("identifiers", CleanIds(FindIdentifiers(name, 0)))

NumericPart(name_orig) == KeyEntry("numeric_values", NumericValues(name_orig, 0))

\* the (key, value) pairs in the order the function sets them; name is
\* product_name.upper()
SpecPairs(product_name, name) ==
    VolumePart(name) \o WattagePart(product_name) \o SizeInchPart(product_name)
    \o BrakePart(product_name, name)
    \o IdentifiersPart(name) \o NumericPart(product_name)

\* the dict of a list of (key, value) pairs with distinct keys
SpecDict(pairs) ==
    [k \in {pairs[i][1] : i \in 1..Len(pairs)} |->
        pairs[CHOOSE i \in 1..Len(pairs) : pairs[i][1] = k][2]]

\* extract_size_specs(product_name): the dict of the keys found in the name.
\* Keys whose pattern needs text outside the model's atoms are never found.
extract_size_specs(product_name) ==
    IF product_name = << >> THEN << >>
    ELSE SpecDict(SpecPairs(product_name, Upper(product_name)))

---------------------------------------------------------------------------
(* Scorer: calculate_spec_score                                            *)

\* spec_weights
spec_weights ==
    <<  <<"wattage", 40>>, <<"led_wattage", 40>>, <<"size_inch", 30>>,
        <<"socket", 25>>, <<"volume", 25>>, <<"length", 30>>,
        <<"length_cm", 20>>, <<"dimensions", 15>>, <<"color_temp", 15>>,
        <<"outlets", 25>>, <<"steps", 30>>, <<"pack_count", 30>>,
        <<"lines", 30>>, <<"tiers", 35>>, <<"brake", 40>>,
        <<"roller_type", 40>>, <<"ladder_type", 35>>,
        <<"ladder_direction", 30>>, <<"lamp_type", 45>>,
        <<"knob_room", 40>>, <<"hose_diameter", 35>> >>

\* the difference taken relative to the target value
WithinPct_of_target(src_num, tgt_num, pct) == 100 * Abs(src_num - tgt_num) <= pct * tgt_num

\* abs(src_num - tgt_num) / src_num <= pct / 100, for src_num > 0
WithinPct(src_num, tgt_num, pct) == 100 * Abs(src_num - tgt_num) <= pct * src_num

\* a credit of half the weight for every differing pair of values
PartialCredit10_half(spec_key, weight, sv, tv) == 5 * weight

\* the credit, in tenths of a weight point, that a key present on both sides
\* with differing value strings adds to matched_weight
PartialCredit10(spec_key, weight, sv, tv) ==
    LET sf == FirstNumber(sv, 0)
        tf == FirstNumber(tv, 0)
        si == FirstInteger(sv)
        ti == FirstInteger(tv)
        sn == FloatMilli(sf)
        tn == FloatMilli(tf)
    IN  CASE spec_key \in {"wattage", "led_wattage"} ->
                IF sf = << >> \/ tf = << >> THEN 0
                ELSE IF sn = tn THEN 10 * weight
                ELSE IF sn <= 0 THEN 0
                ELSE IF WithinPct(sn, tn, 10) THEN 8 * weight
                ELSE IF WithinPct(sn, tn, 20) THEN 5 * weight
                ELSE IF WithinPct(sn, tn, 30) THEN 2 * weight
                ELSE 0
          [] spec_key = "pack_count" ->
                IF si = << >> \/ ti = << >> THEN 0
                ELSE IF FloatMilli(si) = FloatMilli(ti) THEN 10 * weight
                ELSE IF FloatMilli(si) <= 0 THEN 0
                ELSE IF WithinPct(FloatMilli(si), FloatMilli(ti), 15) THEN 7 * weight
                ELSE IF WithinPct(FloatMilli(si), FloatMilli(ti), 30) THEN 3 * weight
                ELSE 0
          [] spec_key = "size_inch" ->
                IF sf = << >> \/ tf = << >> THEN 0
                ELSE IF sn = tn THEN 10 * weight
                ELSE IF sn > 0 /\ WithinPct(sn, tn, 5) THEN 7 * weight
                ELSE 0
          [] spec_key \in {"steps", "lines", "tiers"} ->
                IF si = << >> \/ ti = << >> THEN 0
                ELSE IF FloatMilli(si) = FloatMilli(ti) THEN 10 * weight
                ELSE 0
          [] spec_key \in {"length", "outlets"} ->
                IF sf = << >> \/ tf = << >> THEN 0
                ELSE IF sn = tn THEN 10 * weight
                ELSE IF sn > 0 /\ WithinPct(sn, tn, 10) THEN 7 * weight
                ELSE 0
          \* the categorical keys and hose_diameter compare the strings again,
          \* which differ here; the other keys have no branch
          [] OTHER -> 0

\* the weighted keys: what one (key, weight) entry adds to total_weight and,
\* in tenths, to matched_weight
KeyTotal(entry, source_specs) ==
    IF entry[1] \in DOMAIN source_specs THEN entry[2] ELSE 0

\* a key the target lacks counted as matched
KeyMatched10_absent_matches(entry, source_specs, target_specs) ==
    IF entry[1] \in DOMAIN source_specs /\ entry[1] \in DOMAIN target_specs
    THEN IF source_specs[entry[1]] = target_specs[entry[1]] THEN 10 * entry[2]
         ELSE PartialCredit10(entry[1], entry[2],
                              source_specs[entry[1]], target_specs[entry[1]])
    ELSE IF entry[1] \in DOMAIN source_specs THEN 10 * entry[2]
    ELSE 0

KeyMatched10(entry, source_specs, target_specs) ==
    IF entry[1] \in DOMAIN source_specs /\ entry[1] \in DOMAIN target_specs
    THEN IF source_specs[entry[1]] = target_specs[entry[1]] THEN 10 * entry[2]
         ELSE PartialCredit10(entry[1], entry[2],
                              source_specs[entry[1]], target_specs[entry[1]])
    ELSE 0

\* total_weight and matched_weight (in tenths) after the loop over spec_weights
RECURSIVE WeightedTotal(_, _)
WeightedTotal(entries, source_specs) ==
    IF entries = << >> THEN 0
    ELSE KeyTotal(Head(entries), source_specs) + WeightedTotal(Tail(entries), source_specs)

RECURSIVE WeightedMatched10(_, _, _)
WeightedMatched10(entries, source_specs, target_specs) ==
    IF entries = << >> THEN 0
    ELSE KeyMatched10(Head(entries), source_specs, target_specs)
         + WeightedMatched10(Tail(entries), source_specs, target_specs)

SeqToSet(seq) == {seq[i] : i \in 1..Len(seq)}

\* the identifier bonus without its cap
IdBonus_uncapped(source_specs, target_specs) ==
    LET common == SeqToSet(source_specs["identifiers"])
                  \cap SeqToSet(target_specs["identifiers"])
    IN  IF "identifiers" \in DOMAIN source_specs /\ "identifiers" \in DOMAIN target_specs
           /\ common # {}
        THEN <<Cardinality(common) * 30, 30>>
        ELSE <<0, 0>>

\* the identifier bonus: <<matched, total>> added by common identifiers
IdBonus(source_specs, target_specs) ==
    LET common == SeqToSet(source_specs["identifiers"])
                  \cap SeqToSet(target_specs["identifiers"])
    IN  IF "identifiers" \in DOMAIN source_specs /\ "identifiers" \in DOMAIN target_specs
           /\ common # {}
        THEN <<Min(Cardinality(common) * 15, 30), 30>>
        ELSE <<0, 0>>

\* su == tu and abs(sv - tv) / max(sv, 1) <= 0.05, values in thousandths
NumClose(sp, tp) == sp[2] = tp[2] /\ 20 * Abs(sp[1] - tp[1]) <= Max(sp[1], 1000)

\* the numeric-value bonus: <<matched, total>>
NumBonus(source_specs, target_specs) ==
    LET src_nums == source_specs["numeric_values"]
        tgt_nums == target_specs["numeric_values"]
        matching_nums == Cardinality({i \in 1..Len(src_nums) :
                            \E j \in 1..Len(tgt_nums) : NumClose(src_nums[i], tgt_nums[j])})
    IN  IF "numeric_values" \in DOMAIN source_specs
           /\ "numeric_values" \in DOMAIN target_specs
           /\ Len(src_nums) > 0 /\ matching_nums > 0
        THEN <<(25 * matching_nums) \div Len(src_nums), 25>>
        ELSE <<0, 0>>

\* the percentage rounded to the nearest integer, halves upwards
PyPercent_rounded(matched10, total_weight) ==
    (2 * matched10 * 10 + total_weight) \div (2 * total_weight)

\* int(matched_weight / total_weight * 100) in double arithmetic, matched in
\* tenths: the quotient truncated, except that 0.29 * 100, 0.57 * 100 and
\* 0.58 * 100 fall just below 29, 57 and 58
PyPercent(matched10, total_weight) ==
    LET q == (matched10 * 10) \div total_weight
    IN  IF (matched10 * 10) % total_weight = 0 /\ q \in {29, 57, 58} THEN q - 1 ELSE q

\* calculate_spec_score(source_specs, target_specs)
calculate_spec_score(source_specs, target_specs) ==
    LET total_weight ==
            WeightedTotal(spec_weights, source_specs)
            + IdBonus(source_specs, target_specs)[2]
            + NumBonus(source_specs, target_specs)[2]
        matched10 ==
            WeightedMatched10(spec_weights, source_specs, target_specs)
            + 10 * IdBonus(source_specs, target_specs)[1]
            + 10 * NumBonus(source_specs, target_specs)[1]
    IN  IF DOMAIN source_specs = {} THEN 50
        ELSE IF total_weight = 0 THEN 50
        ELSE PyPercent(matched10, total_weight)

---------------------------------------------------------------------------
(* Text Normalizer, house-brand engine: normalize_text                     *)

\* the table with the last finish word mapped to the empty string
thai_eng_mappings_blank ==
    <<  <<<<"th_gallon">>, <<"GAL">>>>,
        <<<<"th_lit">>, <<"L">>>>,
        <<<<"th_m", "th_l", ".">>, <<"ML">>>>,
        <<<<"th_met">>, <<"M">>>>,
        <<<<"th_m", ".">>, <<"M">>>>,
        <<<<"th_dan">>, << >>>> >>

\* thai_eng_mappings, in the order the dict is iterated
thai_eng_mappings ==
    <<  <<<<"th_gallon">>, <<"GAL">>>>,
        <<<<"th_galon">>, <<"GAL">>>>,
        <<<<"th_lit">>, <<"L">>>>,
        <<<<"th_kilokram">>, <<"KG">>>>,
        <<<<"th_kk", ".">>, <<"KG">>>>,
        <<<<"th_milli", "th_lit">>, <<"ML">>>>,
        <<<<"th_m", "th_l", ".">>, <<"ML">>>>,
        <<<<"th_met">>, <<"M">>>>,
        <<<<"th_m", ".">>, <<"M">>>>,
        <<<<"th_senti", "th_met">>, <<"CM">>>>,
        <<<<"th_s", "th_m", ".">>, <<"CM">>>>,
        <<<<"th_niw">>, <<"INCH">>>>,
        <<<<"th_watt">>, <<"W">>>>,
        <<<<"th_kuengngao">>, <<"SEMI-GLOSS">>>>,
        <<<<"th_nian">>, <<"SHEEN">>>>,
        <<<<"th_dan">>, <<"MATTE">>>> >>

\* the loop over a mapping table: each key, upper-cased and as written, is
\* replaced in turn
RECURSIVE ApplyMappings(_, _)
ApplyMappings(text, table) ==
    IF table = << >> THEN text
    ELSE ApplyMappings(
            Replace(Replace(text, Upper(Head(table)[1]), Head(table)[2]),
                    Head(table)[1], Head(table)[2]),
            Tail(table))

\* normalize_text(text) of the house-brand engine
normalize_text(text) ==
    IF text = << >> THEN << >>
    ELSE ApplyMappings(Strip(Upper(text)), thai_eng_mappings)

\* normalize_url with the two steps exchanged
normalize_url_strip_first(url) ==
    IF url = << >> THEN << >>
    ELSE SplitFirst(RStripChar(url, "/"), "?")

\* normalize_url(url): the query string cut off, then the trailing slashes
normalize_url(url) ==
    IF url = << >> THEN << >>
    ELSE RStripChar(SplitFirst(url, "?"), "/")

\* str.split(): the whitespace-separated tokens, as a set
RECURSIVE Tokens(_)
Tokens(s) ==
    LET t == LStrip(s)
        w == SplitFirst(t, " ")
    IN  IF t = << >> THEN {} ELSE {w} \cup Tokens(Slice(t, Len(w), Len(t)))

\* the values fuzz.token_set_ratio may return for two texts of which neither
\* token set contains the other; the library is outside the repository
TextSims == {10, 70}

\* fuzz.token_set_ratio(a, b): 0 when a text has no token, 100 when the
\* token sets share a token and one contains the other, else a value the
\* library computes from the characters (sim, chosen by the caller)
token_set_ratio(a, b, sim) ==
    IF Tokens(a) = {} \/ Tokens(b) = {} THEN 0
    ELSE IF Tokens(a) \subseteq Tokens(b) \/ Tokens(b) \subseteq Tokens(a) THEN 100
    ELSE sim

---------------------------------------------------------------------------
(* Conflict Detector: has_product_conflict                                 *)

\* PRODUCT_LINE_CONFLICTS: the term pairs that can be written with the
\* model's atoms (the caster-wheel brake pairs), lower-cased as the loop
\* lower-cases them
PRODUCT_LINE_CONFLICTS ==
    <<  <<<<"th_mai", "th_mibrek">>, <<"th_mibrek">>>>,
        <<<<"th_mai", "th_mibrek2">>, <<"th_mibrek2">>>>,
        <<<<"no", " ", "brake">>, <<"with", " ", "brake">>>> >>

\* the loop over the term pairs: a pair conflicts when one term occurs in the
\* source and the other in the target, in either direction
RECURSIVE LiteralPairConflict(_, _, _)
LiteralPairConflict(pairs, source_lower, target_lower) ==
    IF pairs = << >> THEN FALSE
    ELSE LET term1_lower == Lower(Head(pairs)[1])
             term2_lower == Lower(Head(pairs)[2])
         IN  \/ Contains(source_lower, term1_lower) /\ Contains(target_lower, term2_lower)
             \/ Contains(source_lower, term2_lower) /\ Contains(target_lower, term1_lower)
             \/ LiteralPairConflict(Tail(pairs), source_lower, target_lower)

\* the value of the first liter match l, else of the first gallon match g
\* times 3.785, in millionths of a litre; 0 for None
VolumeOf(name_upper, l, g) ==
    IF l[1] >= 0 THEN 1000 * FloatMilli(Slice(name_upper, l[1], l[1] + l[2]))
    ELSE IF g[1] >= 0 THEN 3785 * FloatMilli(Slice(name_upper, g[1], g[1] + g[2]))
    ELSE 0

\* the two searches on name.upper()
VolumeIn(name_upper) ==
    VolumeOf(name_upper, NumUnitSearch(name_upper, 0, {"L", "th_lit"}),
             NumUnitSearch(name_upper, 0, {"GL", "GAL", "th_gallon"}))

\* extract_volume_liters(name)
extract_volume_liters(name) == IF name = << >> THEN 0 ELSE VolumeIn(Upper(name))

\* the dynamic volume check: min_vol / max_vol < 0.5
VolumeRatioConflict(source_vol, target_vol) ==
    /\ source_vol # 0 /\ target_vol # 0
    /\ 2 * Min(source_vol, target_vol) < Max(source_vol, target_vol)

VolumeConflict(source_name, target_name) ==
    VolumeRatioConflict(extract_volume_liters(source_name), extract_volume_liters(target_name))

\* has_product_conflict(source_name, target_name).  The structural rules
\* after the volume check are each guarded by keywords or units (socket
\* codes, bicycle, shade net, hose, ladder, brush, ...) that no text over the
\* model's atoms contains; the wheel-size rule, guarded by th_lo, needs a
\* size in cm or inch on both sides.
has_product_conflict(source_name, target_name) ==
    IF source_name = << >> \/ target_name = << >> THEN FALSE
    ELSE \/ LiteralPairConflict(PRODUCT_LINE_CONFLICTS, Lower(source_name), Lower(target_name))
         \/ VolumeConflict(source_name, target_name)

---------------------------------------------------------------------------
(* The products the runs draw their arguments from                         *)

Product(name, brand, url, price) ==
    [name |-> name, brand |-> brand, url |-> url, price |-> price,
     model |-> << >>, category |-> << >>]

\* source products of the house-brand engine:
\*   หลอด 15W, brand toa, 100;  หลอด 15W, brand TOA, price 0;  ล้อ ไม่มีเบรก, no brand, 100
SourcePool ==
    <<  Product(<<"th_lod", " ", "15", "W">>, <<"toa">>, << >>, 100),
        Product(<<"th_lod", " ", "15", "W">>, <<"TOA">>, << >>, 0),
        Product(<<"th_lo", " ", "th_mai", "th_mibrek">>, << >>, << >>, 100) >>

HomeproUrl == <<"https://www.", "homepro.co.th", "/", "p", "/", "12345">>

\* catalog entries of the house-brand engine
TargetPool ==
    <<  Product(<<"th_lod", " ", "15", "W">>, <<"NASH">>, << >>, 200),
        Product(<<"th_lod", " ", "15", "W">>, <<"TOA">>, << >>, 100),
        Product(<<"TOA", " ", "th_lod", " ", "15", "W">>, << >>, HomeproUrl, 100),
        Product(<<"th_lo", " ", "th_mibrek">>, <<"NASH">>, << >>, 100),
        Product(<<"th_lod", " ", "9", "W">>, <<"NASH">>, << >>, 160),
        Product(<<"th_lod", " ", "15", "W">>, <<"NASH">>, << >>, 0),
        Product(<<"th_lod", " ", "15", "W">>, <<"NASH">>, << >>, 250),
        Product(<<"th_lod", " ", "9", "W">>, << >>, << >>, 170) >>

\* products of the price-match engine
PmSourcePool ==
    <<  Product(<<"JOTASHIELD", " ", "FLEX">>, <<"JOTUN">>, << >>, 0),
        Product(<<"TOUGH", " ", "SHIELD">>, <<"JOTUN">>, << >>, 0) >>

PmTargetPool ==
    <<  Product(<<"JOTASHIELD">>, <<"JOTUN">>, << >>, 0),
        Product(<<"TOUGH", " ", "SHIELD">>, << >>, << >>, 0),
        Product(<<"JOTASHIELD", " ", "FLEX">>, <<"jotun">>, << >>, 0),
        Product(<<"FUTURESHIELD">>, << >>, << >>, 0) >>

\* The values the recall loop computes from a product alone, or from a pair
\* of names, are computed once for the products above and looked up by the
\* loop (the names of the two engines are disjoint).
PoolRange(pool) == {pool[k] : k \in 1..Len(pool)}
ProductNames == {p.name : p \in PoolRange(SourcePool) \cup PoolRange(TargetPool)}

\* extract_size_specs(name) for each name
size_specs == [n \in ProductNames |-> extract_size_specs(n)]

\* normalize_text(name).lower() for each name
text_norm == [n \in ProductNames |-> Lower(normalize_text(n))]

\* calculate_spec_score(source_specs, t_specs) for each pair of names
spec_scores ==
    [s \in ProductNames, t \in ProductNames |-> calculate_spec_score(size_specs[s], size_specs[t])]

\* has_product_conflict(source_name, t_name) for each pair of names
product_conflicts == [s \in ProductNames, t \in ProductNames |-> has_product_conflict(s, t)]

\* extract_brand(source_name, source.get('brand', '')) for each source product
source_brands == [p \in PoolRange(SourcePool) |-> extract_brand(p.name, p.brand, << >>)]

\* extract_brand(t_name, t.get('brand', ''), t_url) for each target product
target_brands == [p \in PoolRange(TargetPool) |-> extract_brand(p.name, p.brand, p.url)]

---------------------------------------------------------------------------
(* Candidate Recall: the loop over target_products in                      *)
(* ai_find_house_brand_alternatives.  Prices are integers, price_diff is   *)
(* compared in percent, combined_score is kept in hundredths.              *)

\* dict.get(k, default)
Get(d, k, default) == IF k \in DOMAIN d THEN d[k] ELSE default

\* get_preferred_brands(source_brand, retailer)
get_preferred_brands(mapping, source_brand, retailer) ==
    IF retailer = "" \/ retailer \notin DOMAIN mapping THEN << >>
    ELSE Get(mapping[retailer], source_brand, << >>)

\* the loop over preferred_brands from position rank on: <<brand_rank, brand_boost>>
RECURSIVE BrandBoost(_, _, _)
BrandBoost(preferred_brands, t_brand, rank) ==
    IF rank >= Len(preferred_brands) THEN <<-1, 0>>
    ELSE LET pb == preferred_brands[rank + 1]
         IN  IF Upper(t_brand) = Upper(pb) THEN <<rank, Max(20 - rank * 3, 5)>>
             ELSE IF Contains(Upper(t_brand), Upper(pb)) \/ Contains(Upper(pb), Upper(t_brand))
                  THEN <<rank, Max(15 - rank * 3, 3)>>
             ELSE BrandBoost(preferred_brands, t_brand, rank + 1)

\* model_boost from the 'model' entries of the two spec dicts
ModelBoost(source_specs, t_specs) ==
    LET source_model == Get(source_specs, "model", << >>)
        target_model == Get(t_specs, "model", << >>)
    IN  IF source_model = << >> \/ target_model = << >> THEN 0
        ELSE IF Upper(source_model) = Upper(target_model) THEN 50
        ELSE IF Contains(Upper(target_model), Upper(source_model))
                \/ Contains(Upper(source_model), Upper(target_model)) THEN 25
        ELSE 0

CriticalSpecKeys ==
    {"wattage", "led_wattage", "size_inch", "volume", "dimensions", "socket", "tiers", "pack_count"}

\* critical_spec_matches
CriticalSpecMatches(source_specs, t_specs) ==
    Cardinality({k \in CriticalSpecKeys :
        k \in DOMAIN source_specs /\ k \in DOMAIN t_specs /\ source_specs[k] = t_specs[k]})

\* the price filters of the two tiers, in percent of the source price
SpecPriceLimit == 100
FuzzyPriceLimit == 60

\* the price difference taken relative to the target price
PriceDiffWithin_target_relative(t_price, source_price, limit) ==
    100 * Abs(t_price - source_price) <= limit * t_price

\* price_diff <= limit / 100, for source_price > 0
PriceDiffWithin(t_price, source_price, limit) ==
    100 * Abs(t_price - source_price) <= limit * source_price

\* the thresholds of the tier conditions
MinCriticalMatches == 2
SpecTierScore == 60
FuzzyTextSim == 15
FuzzySpecScore == 30

\* the brand of a source product: explicit field, else the name (no URL given)
SourceBrand(source) == source_brands[source]

\* the brand of a target product: explicit field, else URL, else the name
TargetBrand(t) == target_brands[t]

\* brand_rank and brand_boost of a target brand
PreferredBoost(preferred_brands, t_brand) ==
    IF preferred_brands # << >> /\ t_brand # << >>
    THEN BrandBoost(preferred_brands, t_brand, 0) ELSE <<-1, 0>>

\* the candidate dict built for target i (0-based) of either tier; the keys
\* category, url and specs are functions of the target and are not stored
Candidate(i, t, t_brand, spec_score, text_sim, bb, model_boost, tier) ==
    [idx |-> i, name |-> t.name, brand |-> t_brand, price |-> t.price,
     spec_score |-> spec_score, text_sim |-> text_sim,
     brand_boost |-> bb[2], brand_rank |-> bb[1], model_boost |-> model_boost,
     combined_score |->
        IF tier = "spec" THEN spec_score * 80 + text_sim * 15 + bb[2] * 50
        ELSE spec_score * 60 + text_sim * 25 + (bb[2] + model_boost) * 100,
     tier |-> tier]

\* the skips without the comparison of the two brands
Skipped_brand_blind(t_price, source_brand, t_brand, conflict) ==
    \/ t_price <= 0
    \/ conflict

\* the three skips at the head of the loop body
Skipped(t_price, source_brand, t_brand, conflict) ==
    \/ t_price <= 0
    \/ source_brand # << >> /\ t_brand # << >> /\ source_brand = t_brand
    \/ conflict

\* the tiers with the skipped targets scored like every other target
Tier_unskipped(skipped, critical_spec_matches, spec_score, text_sim, brand_boost, model_boost, t_price, source_price) ==
    IF (critical_spec_matches >= MinCriticalMatches \/ spec_score >= SpecTierScore)
       /\ PriceDiffWithin(t_price, source_price, SpecPriceLimit)
    THEN "spec"
    ELSE IF PriceDiffWithin(t_price, source_price, FuzzyPriceLimit)
            /\ (text_sim >= FuzzyTextSim \/ spec_score >= FuzzySpecScore
                \/ brand_boost > 0 \/ model_boost > 0)
    THEN "fuzzy"
    ELSE "none"

\* the tier a target is admitted to: "spec" or "fuzzy", "none" when neither
\* condition holds, "skip" when the target was skipped
Tier(skipped, critical_spec_matches, spec_score, text_sim, brand_boost, model_boost, t_price, source_price) ==
    IF skipped THEN "skip"
    ELSE IF (critical_spec_matches >= MinCriticalMatches \/ spec_score >= SpecTierScore)
            /\ PriceDiffWithin(t_price, source_price, SpecPriceLimit)
    THEN "spec"
    ELSE IF PriceDiffWithin(t_price, source_price, FuzzyPriceLimit)
            /\ (text_sim >= FuzzyTextSim \/ spec_score >= FuzzySpecScore
                \/ brand_boost > 0 \/ model_boost > 0)
    THEN "fuzzy"
    ELSE "none"

\* the loop body for target i, given what it computes from the two products
Admit(i, t, source, t_brand, skipped, critical_spec_matches, spec_score, text_sim, bb, model_boost) ==
    Candidate(i, t, t_brand, spec_score, text_sim, bb, model_boost,
              Tier(skipped, critical_spec_matches, spec_score, text_sim, bb[2], model_boost,
                   t.price, source.price))

Scored(i, t, source, source_brand, t_brand, source_specs, t_specs, preferred_brands, sim) ==
    Admit(i, t, source, t_brand,
          Skipped(t.price, source_brand, t_brand, product_conflicts[source.name, t.name]),
          CriticalSpecMatches(source_specs, t_specs),
          spec_scores[source.name, t.name],
          token_set_ratio(text_norm[source.name], text_norm[t.name], sim),
          PreferredBoost(preferred_brands, t_brand),
          ModelBoost(source_specs, t_specs))

LoopBody(i, t, source, preferred_brands, sim) ==
    Scored(i, t, source, SourceBrand(source), TargetBrand(t), size_specs[source.name],
           size_specs[t.name], preferred_brands, sim)

\* the loop from target i (0-based) on: one entry per target, with the tier
\* it was admitted to
RECURSIVE Recall(_, _, _, _, _)
Recall(i, target_products, source, preferred_brands, sims) ==
    IF i >= Len(target_products) THEN << >>
    ELSE <<LoopBody(i, target_products[i + 1], source, preferred_brands, sims[i + 1])>>
         \o Recall(i + 1, target_products, source, preferred_brands, sims)

---------------------------------------------------------------------------
(* Candidate Ranker: the sorts, the quality gate and the truncation        *)

\* the orders with the final sort comparing tier and spec_score only
Before_no_tiebreak(a, b, key) ==
    CASE key = "spec_score"     -> a.spec_score > b.spec_score
      [] key = "combined_score" -> a.combined_score > b.combined_score
      [] key = "sim"            -> a.sim > b.sim
      [] key = "tier_priority"  ->
            LET tier_priority(c) == IF c.tier = "spec" THEN 0 ELSE 1
            IN  \/ tier_priority(a) < tier_priority(b)
                \/ tier_priority(a) = tier_priority(b) /\ a.spec_score > b.spec_score

\* the order of each list.sort call: a is placed before b
Before(a, b, key) ==
    CASE key = "spec_score"     -> a.spec_score > b.spec_score
      [] key = "combined_score" -> a.combined_score > b.combined_score
      [] key = "sim"            -> a.sim > b.sim
      [] key = "tier_priority"  ->
            LET tier_priority(c) == IF c.tier = "spec" THEN 0 ELSE 1
            IN  \/ tier_priority(a) < tier_priority(b)
                \/ tier_priority(a) = tier_priority(b) /\ a.spec_score > b.spec_score
                \/ tier_priority(a) = tier_priority(b) /\ a.spec_score = b.spec_score
                   /\ a.combined_score > b.combined_score

\* x inserted into a sorted list behind every element it is not placed before
RECURSIVE InsertStable(_, _, _)
InsertStable(sorted, x, key) ==
    IF sorted = << >> THEN <<x>>
    ELSE IF Before(x, Head(sorted), key) THEN <<x>> \o sorted
    ELSE <<Head(sorted)>> \o InsertStable(Tail(sorted), x, key)

\* list.sort(key=...): stable, equal keys keep their order
RECURSIVE Sort(_, _)
Sort(list, key) ==
    IF list = << >> THEN << >>
    ELSE InsertStable(Sort(Slice(list, 0, Len(list) - 1), key), list[Len(list)], key)

\* the limits of the quality gate and of the shortlist
HighQualityScore == 60
HighQualityCount == 3
SpecLimit == 30
FuzzyLimit == 10
ShortlistLimit == 40
TypeLimit == 5

\* spec_candidates or fuzzy_candidates as the loop leaves them
TierCandidates(entries, tier) == SelectSeq(entries, LAMBDA c : c.tier = tier)

\* the fuzzy candidates whose index is not among the spec candidates
Unseen(spec_candidates, fuzzy_candidates) ==
    SelectSeq(fuzzy_candidates,
              LAMBDA c : c.idx \notin {spec_candidates[k].idx : k \in 1..Len(spec_candidates)})

\* the quality gate with the first branch taking every spec-tier candidate
Gate_every_spec(spec_candidates, high_quality_spec, fuzzy_candidates) ==
    IF Len(high_quality_spec) >= HighQualityCount
    THEN Slice(spec_candidates, 0, SpecLimit) \o Slice(fuzzy_candidates, 0, FuzzyLimit)
    ELSE spec_candidates
         \o Slice(fuzzy_candidates, 0, Max(0, ShortlistLimit - Len(spec_candidates)))

\* the quality gate with the last places of the first branch filled from
\* both tiers
Gate_refill(spec_candidates, high_quality_spec, fuzzy_candidates) ==
    IF Len(high_quality_spec) >= HighQualityCount
    THEN Slice(high_quality_spec, 0, SpecLimit)
         \o Slice(spec_candidates \o fuzzy_candidates, 0, FuzzyLimit)
    ELSE spec_candidates
         \o Slice(fuzzy_candidates, 0, Max(0, ShortlistLimit - Len(spec_candidates)))

\* the quality gate
Gate(spec_candidates, high_quality_spec, fuzzy_candidates) ==
    IF Len(high_quality_spec) >= HighQualityCount
    THEN Slice(high_quality_spec, 0, SpecLimit) \o Slice(fuzzy_candidates, 0, FuzzyLimit)
    ELSE spec_candidates
         \o Slice(fuzzy_candidates, 0, Max(0, ShortlistLimit - Len(spec_candidates)))

\* candidates, from the two sorted lists
Merge(spec_candidates, fuzzy_candidates) ==
    Gate(spec_candidates,
         SelectSeq(spec_candidates, LAMBDA c : c.spec_score >= HighQualityScore),
         Unseen(spec_candidates, fuzzy_candidates))

\* the ranking without the cut to the shortlist limit
Rank_uncut(entries) ==
    Sort(Merge(Sort(TierCandidates(entries, "spec"), "spec_score"),
               Sort(TierCandidates(entries, "fuzzy"), "combined_score")),
         "tier_priority")

\* top_candidates, from the entries of the recall loop: both tiers sorted,
\* gated, merged, sorted by tier priority and cut to the shortlist limit
Rank(entries) ==
    Slice(Sort(Merge(Sort(TierCandidates(entries, "spec"), "spec_score"),
                     Sort(TierCandidates(entries, "fuzzy"), "combined_score")),
               "tier_priority"),
          0, ShortlistLimit)

\* top_candidates of one source
TopCandidates(source, target_products, preferred_brands, sims) ==
    Rank(Recall(0, target_products, source, preferred_brands, sims))

---------------------------------------------------------------------------
(* The decision response: repair of the text and json.loads.  The text is  *)
(* a sequence of atoms: "FENCE" (three backquotes), "json", "{", "}", ",", ":", the keys, *)
(* "null", number atoms with an optional "-", "str" (a complete string     *)
(* literal that is not a number), "str_open" (a string literal cut before  *)
(* its closing quote), "LF" and "prose".                                   *)

\* a JSON value: kind is "absent", "null", "int" or "str"
JAbsent == [kind |-> "absent", val |-> 0]
JNull == [kind |-> "null", val |-> 0]
JStr == [kind |-> "str", val |-> 0]
JInt(n) == [kind |-> "int", val |-> n]

\* str.split(c)[1] of a text that has a c
SplitSecond(s, c) ==
    SplitFirst(Slice(s, Len(SplitFirst(s, c)) + 1, Len(s)), c)

\* the fence removal
StripFence(result_text) ==
    IF StartsWith(result_text, <<"FENCE">>)
    THEN LET inner == SplitSecond(result_text, "FENCE")
         IN  IF StartsWith(inner, <<"json">>) THEN Slice(inner, 1, Len(inner)) ELSE inner
    ELSE result_text

\* re.sub of the control characters by the empty string
RemoveControl(result_text) == SelectSeq(result_text, LAMBDA a : a # "LF")

\* the closing-brace repair
CloseObject(result_text) ==
    IF EndsWith(result_text, <<"}">>) THEN result_text
    ELSE SplitFirst(result_text, "}") \o <<"}">>

\* the text handed to json.loads
Repair(content) == CloseObject(RemoveControl(Strip(StripFence(Strip(content)))))

\* the number of atoms of the JSON value at 0-based position i, 0 if none
ValueLen(s, i) ==
    IF i < Len(s) /\ (s[i + 1] \in {"null", "str"} \/ IsNumber(s[i + 1])) THEN 1
    ELSE IF i + 1 < Len(s) /\ s[i + 1] = "-" /\ IsNumber(s[i + 2]) THEN 2
    ELSE 0

ValueAt(s, i) ==
    CASE s[i + 1] = "null" -> JNull
      [] s[i + 1] = "str"  -> JStr
      [] s[i + 1] = "-"    -> JInt(-NumValue[s[i + 2]])
      [] OTHER             -> JInt(NumValue[s[i + 1]])

JsonKeys == {"match_index", "confidence", "reason"}

\* the object parsed so far, and the outcome of a JSONDecodeError
EmptyObject ==
    [kind |-> "object", match_index |-> JAbsent, confidence |-> JAbsent, reason |-> JAbsent]
JsonError ==
    [kind |-> "error", match_index |-> JAbsent, confidence |-> JAbsent, reason |-> JAbsent]

\* the members of an object from position i on, up to the closing brace that
\* must end the text
RECURSIVE Members(_, _, _)
Members(s, i, obj) ==
    IF i + 1 < Len(s) /\ s[i + 1] \in JsonKeys /\ s[i + 2] = ":" /\ ValueLen(s, i + 2) > 0
    THEN LET j == i + 2 + ValueLen(s, i + 2)
             obj2 == [obj EXCEPT ![s[i + 1]] = ValueAt(s, i + 2)]
         IN  IF j < Len(s) /\ s[j + 1] = "," THEN Members(s, j + 1, obj2)
             ELSE IF j = Len(s) - 1 /\ s[j + 1] = "}" THEN obj2
             ELSE JsonError
    ELSE JsonError

\* json.loads(text): an object, None for the text null, or a decode error
json_loads(s) ==
    IF s = <<"null">> THEN [EmptyObject EXCEPT !.kind = "null"]
    ELSE IF s = <<"{", "}">> THEN EmptyObject
    ELSE IF s # << >> /\ s[1] = "{" THEN Members(s, 1, EmptyObject)
    ELSE JsonError

---------------------------------------------------------------------------
(* Price-match engine (src/app.py): normalize_text, normalize_brand,       *)
(* check_product_line_conflict                                             *)

\* brand_aliases: the entries that can be written with the model's atoms
pm_brand_aliases ==
    <<  <<<<"TOA", " ", "SHARKS">>, <<"SHARK">>>>,
        <<<<"TOA", " ", "SHARK">>, <<"SHARK">>>>,
        <<<<"SHARKS">>, <<"SHARK">>>>,
        <<<<"TOA", " ", "BARGO">>, <<"BARCO">>>>,
        <<<<"TOA", " ", "BARCO">>, <<"BARCO">>>>,
        <<<<"BARGO">>, <<"BARCO">>>> >>

\* thai_eng_mappings of the price-match engine, likewise, in dict order
pm_thai_eng_mappings ==
    <<  <<<<"th_jotashield", "th_flex">>, <<"JOTASHIELD", " ", "FLEX">>>>,
        <<<<"th_jotashield", " ", "th_flex">>, <<"JOTASHIELD", " ", "FLEX">>>>,
        <<<<"th_jotashield">>, <<"JOTASHIELD">>>>,
        <<<<"th_kuengngao">>, <<"SEMIGLOSS">>>>,
        <<<<"th_nian">>, <<"SHEEN">>>>,
        <<<<"th_dan">>, <<"MATTE">>>>,
        <<<<"th_gallon">>, <<"GAL">>>>,
        <<<<"th_galon">>, <<"GAL">>>>,
        <<<<"th_lit">>, <<"L">>>>,
        <<<<"th_run">>, << >>>>,
        <<<<"th_khanat">>, << >>>> >>

\* the loop over brand_aliases: one replace per entry
RECURSIVE ApplyAliases(_, _)
ApplyAliases(text, table) ==
    IF table = << >> THEN text
    ELSE ApplyAliases(Replace(text, Head(table)[1], Head(table)[2]), Tail(table))

\* normalize_text(text) of the price-match engine
pm_normalize_text(text) ==
    IF text = << >> THEN << >>
    ELSE ApplyMappings(ApplyAliases(Strip(Upper(text)), pm_brand_aliases),
                       pm_thai_eng_mappings)

\* normalize_brand(brand)
normalize_brand(brand) == pm_normalize_text(brand)

\* PRODUCT_LINE_CONFLICTS of the price-match engine: the paint-line pairs
pm_PRODUCT_LINE_CONFLICTS ==
    <<  <<<<"TOUGH", " ", "SHIELD">>, <<"JOTASHIELD">>>>,
        <<<<"TOUGH", " ", "SHIELD">>, <<"JOTASHIELD", " ", "FLEX">>>>,
        <<<<"JOTASHIELD">>, <<"JOTASHIELD", " ", "FLEX">>>>,
        <<<<"FUTURESHIELD">>, <<"JOTASHIELD">>>>,
        <<<<"FUTURESHIELD">>, <<"JOTASHIELD", " ", "FLEX">>>>,
        <<<<"FUTURESHIELD">>, <<"TOUGH", " ", "SHIELD">>>> >>

\* the loop over the pairs: the source has one line and the target the other
\* without also having the source's
RECURSIVE LineConflict(_, _, _)
LineConflict(pairs, source_upper, target_upper) ==
    IF pairs = << >> THEN FALSE
    ELSE LET line1 == Head(pairs)[1]
             line2 == Head(pairs)[2]
             source_has_line1 == Contains(source_upper, line1)
             source_has_line2 == Contains(source_upper, line2)
             target_has_line1 == Contains(target_upper, line1)
             target_has_line2 == Contains(target_upper, line2)
         IN  \/ source_has_line1 /\ target_has_line2 /\ ~target_has_line1
             \/ source_has_line2 /\ target_has_line1 /\ ~target_has_line2
             \/ LineConflict(Tail(pairs), source_upper, target_upper)

\* check_product_line_conflict(source_name, target_name)
check_product_line_conflict(source_name, target_name) ==
    LineConflict(pm_PRODUCT_LINE_CONFLICTS, Upper(pm_normalize_text(source_name)),
                 Upper(pm_normalize_text(target_name)))

\* the thresholds of ai_match_products
PreFilterSim == 18
SameBrandBoost == 15
TopCandidateLimit == 15
MatchConfidence == 50

\* the candidate tuple (i, t_name, t_brand, t_model, t_volume, sim) of target
\* i, where raw is the token_set_ratio of the two normalized texts
PmTuple(i, t, source_brand, t_brand, raw) ==
    [idx |-> i, name |-> t.name, brand |-> t_brand, model |-> t.model,
     sim |-> IF source_brand # << >> /\ t_brand # << >> /\ source_brand = t_brand
             THEN Min(100, raw + SameBrandBoost) ELSE raw]

\* source_text_norm and t_text_norm
PmSourceText(source, source_brand) ==
    Lower(pm_normalize_text(source.name \o <<" ">> \o source_brand \o <<" ">>
                            \o source.model \o <<" ">> \o source.category))

PmTargetText(t, t_brand) ==
    Lower(pm_normalize_text(t.name \o <<" ">> \o t_brand \o <<" ">> \o t.model))

PmScored(i, t, source, source_brand, t_brand, sim) ==
    PmTuple(i, t, source_brand, t_brand,
            token_set_ratio(PmSourceText(source, source_brand), PmTargetText(t, t_brand), sim))

PmCandidate(i, t, source, sim) ==
    PmScored(i, t, source, normalize_brand(source.brand), normalize_brand(t.brand), sim)

\* the pre-filter: the candidate is appended
PmKept(c, source_name, t_name) ==
    c.sim >= PreFilterSim /\ ~check_product_line_conflict(source_name, t_name)

\* the pre-filter loop from target i (0-based) on: one tuple per target and
\* whether it was appended
RECURSIVE PmRecall(_, _, _, _)
PmRecall(i, target_products, source, sims) ==
    IF i >= Len(target_products) THEN << >>
    ELSE <<PmCandidate(i, target_products[i + 1], source, sims[i + 1])>>
         \o PmRecall(i + 1, target_products, source, sims)

\* candidates
PmCandidates(tuples, source, target_products) ==
    SelectSeq(tuples, LAMBDA c : PmKept(c, source.name, target_products[c.idx + 1].name))

\* top_candidates of ai_match_products
PmTopCandidates(source, target_products, sims) ==
    Slice(Sort(PmCandidates(PmRecall(0, target_products, source, sims), source,
                            target_products), "sim"),
          0, TopCandidateLimit)

---------------------------------------------------------------------------
(* The two matchers as state machines.  A run is one call of               *)
(* ai_find_house_brand_alternatives or of ai_match_products; a step ends   *)
(* where the function waits for the decision response.                     *)

VARIABLES
    fn,                 \* the function called: "house_brand" or "price_match"
    client,             \* get_openrouter_client() returned a client
    source_products,    \* the argument source_products
    target_products,    \* the argument target_products (the catalog)
    price_tolerance,    \* the argument price_tolerance, in percent
    retailer,           \* the argument retailer, "" for None
    pc,                 \* "start", "loop", "decide" or "done"
    idx,                \* the loop variable idx
    matches,            \* the list matches
    top_candidates,     \* the local top_candidates, the list sent to the oracle
    product_type_cache, \* the module's _product_type_cache: entries key, value
    requests,           \* the oracle requests issued for the current source product
    sent,               \* per source product, the catalog indexes of its shortlist
    result,             \* the decision response of the last source product
    returned,           \* "pending", "None" or "matches"
    call                \* a single function applied on its own: arguments and result

vars == <<fn, client, source_products, target_products, price_tolerance, retailer, pc,
          idx, matches, top_candidates, product_type_cache, requests, sent, result,
          returned, call>>

\* the sizes of the argument lists
MaxSources == 2
MaxTargets == 3

\* the lists of n products taken from a pool in pool order
SubLists(pool, n) ==
    {[k \in 1..n |-> pool[f[k]]] :
        f \in {g \in [1..n -> 1..Len(pool)] : \A k \in 1..(n - 1) : g[k] < g[k + 1]}}

SourceLists(pool) == UNION {SubLists(pool, n) : n \in 1..Min(MaxSources, Len(pool))}
TargetLists(pool) == SubLists(pool, Min(MaxTargets, Len(pool)))

\* price_tolerance as the callers pass it: 0.30, and the default 0.40
PriceTolerances == {30, 40}
DefaultTolerance == 40

\* CROSS_BRAND_MAPPING as load_cross_brand_mapping returns it for a config
\* file that lists NASH as the preferred brand for TOA at HomePro
CROSS_BRAND_MAPPING == ("HomePro" :> (<<"TOA">> :> << <<"NASH">> >>))

Retailers == {"", "HomePro"}

NoResult ==
    [source_idx |-> -1, status |-> "none", match_index |-> JAbsent, confidence |-> JAbsent]

NoRequests == [type |-> 0, decision |-> 0]

\* no function was applied on its own
NoCall == [op |-> "none"]

Init ==
    /\ fn \in {"house_brand", "price_match"}
    /\ client \in BOOLEAN
    /\ source_products \in
        IF fn = "house_brand" THEN SourceLists(SourcePool) ELSE SourceLists(PmSourcePool)
    /\ target_products \in
        IF fn = "house_brand" THEN TargetLists(TargetPool) ELSE TargetLists(PmTargetPool)
    /\ price_tolerance \in IF fn = "house_brand" THEN PriceTolerances ELSE {DefaultTolerance}
    /\ retailer \in IF fn = "house_brand" THEN Retailers ELSE {""}
    /\ pc = "start"
    /\ idx = 0
    /\ matches = << >>
    /\ top_candidates = << >>
    /\ product_type_cache = {}
    /\ requests = NoRequests
    /\ sent = [k \in 1..Len(source_products) |-> {}]
    /\ result = NoResult
    /\ returned = "pending"
    /\ call = NoCall

---------------------------------------------------------------------------
(* The oracle                                                              *)

\* what a product-type request does: it raises, or it returns a type text
TypeReplies == {"raise", "text"}

\* the cleaned result text of a request that returned
TypeText == <<"led", " ", "bulb">>

\* ai_extract_product_type without the lookup in the cache
ai_extract_product_type_uncached(cache, product_name, reply) ==
    IF product_name = << >> THEN [cache |-> cache, requests |-> 0]
    ELSE [cache |-> {e \in cache : e.key # product_name}
                    \cup {[key |-> product_name,
                           value |-> IF reply = "raise" THEN << >> ELSE TypeText]},
          requests |-> 1]

\* ai_extract_product_type(product_name, client) with a client: the cache
\* after the call and the number of requests it issued
ai_extract_product_type(cache, product_name, reply) ==
    IF product_name = << >> THEN [cache |-> cache, requests |-> 0]
    ELSE IF \E e \in cache : e.key = product_name THEN [cache |-> cache, requests |-> 0]
    ELSE [cache |-> cache \cup {[key |-> product_name,
                                 value |-> IF reply = "raise" THEN << >> ELSE TypeText]},
          requests |-> 1]

\* the calls for a list of names, in order
RECURSIVE ExtractTypes(_, _, _)
ExtractTypes(cache, names, reply) ==
    IF names = << >> THEN [cache |-> cache, requests |-> 0]
    ELSE LET first == ai_extract_product_type(cache, Head(names), reply)
             rest == ExtractTypes(first.cache, Tail(names), reply)
         IN  [cache |-> rest.cache, requests |-> first.requests + rest.requests]

\* the integers a decision response may name as match_index
MaxIndex == MaxTargets + 1

NumAtom(n) == CHOOSE a \in DOMAIN NumValue : NumValue[a] = n
IntText(n) == IF n < 0 THEN <<"-", NumAtom(-n)>> ELSE <<NumAtom(n)>>

IndexTexts == {<<"null">>, <<"str">>} \cup {IntText(n) : n \in (-MaxIndex)..MaxIndex}
ConfidenceTexts == {<< >>, <<"null">>, <<"49">>, <<"50">>, <<"59">>, <<"60">>, <<"90">>}

\* the JSON object the prompt asks for; conf = << >> leaves confidence out
Object(mi, conf) ==
    <<"{", "match_index", ":">> \o mi
    \o (IF conf = << >> THEN << >> ELSE <<",", "confidence", ":">> \o conf)
    \o <<",", "reason", ":", "str", "}">>

\* the response texts: the object with each index and with each confidence,
\* fenced, cut short after a value, cut short inside the reason, followed by
\* prose, and texts that hold no object
Contents ==
    {Object(mi, <<"60">>) : mi \in IndexTexts}
    \cup {Object(<<"0">>, conf) : conf \in ConfidenceTexts}
    \cup {Object(<<"-", "1">>, <<"59">>),
          <<" ", "FENCE", "json", "LF">> \o Object(<<"1">>, <<"90">>) \o <<"LF", "FENCE">>,
          <<"FENCE", "LF">> \o Object(<<"0">>, <<"90">>) \o <<"LF", "FENCE", "LF">>,
          <<"{", "LF", "match_index", ":", "1", ",", "LF", "confidence", ":", "60">>,
          <<"{", "match_index", ":", "0", ",", "confidence", ":", "90", ",",
            "reason", ":", "str_open">>,
          Object(<<"0">>, <<"90">>) \o <<"LF", "prose">>,
          <<"prose">>, <<"null">>, << >>}

\* a decision request raises, or returns a text
Responses == {[raise |-> TRUE, content |-> << >>]}
             \cup {[raise |-> FALSE, content |-> c] : c \in Contents}

\* result.get('confidence', 0)
Confidence(r) == IF r.confidence.kind = "absent" THEN 0 ELSE r.confidence.val

\* the threshold of ai_match_products used in place of the house-brand one
HouseBrandConfidence_price_match == MatchConfidence

\* the confidence a match needs in each engine
HouseBrandConfidence == 60

\* the lines from json.loads to matches.append of
\* ai_find_house_brand_alternatives: "match", "no_match" or "exception"
HbOutcome(r, top) ==
    IF r.kind # "object" THEN "exception"
    ELSE IF r.match_index.kind \in {"absent", "null"} THEN "no_match"
    ELSE IF r.confidence.kind \in {"null", "str"} THEN "exception"
    ELSE IF Confidence(r) < HouseBrandConfidence THEN "no_match"
    ELSE IF r.match_index.kind = "str" THEN "exception"
    ELSE IF ~(r.match_index.val < Len(top)) THEN "no_match"
    ELSE IF IndexError(top, r.match_index.val) THEN "exception"
    ELSE "match"

\* the same lines of ai_match_products, up to the conflict check
PmOutcome(r, top) ==
    IF r.kind # "object" THEN "exception"
    ELSE IF r.match_index.kind \in {"absent", "null"} THEN "no_match"
    ELSE IF r.confidence.kind \in {"null", "str"} THEN "exception"
    ELSE IF Confidence(r) < MatchConfidence THEN "no_match"
    ELSE IF r.match_index.kind = "str" THEN "exception"
    ELSE IF ~(0 <= r.match_index.val /\ r.match_index.val < Len(top)) THEN "no_match"
    ELSE "match"

\* the dict with the position in the shortlist stored as target_idx
HbMatch_position(i, source, r, top) ==
    LET matched == PyIndex(top, r.match_index.val)
    IN  [source_idx |-> i, target_idx |-> r.match_index.val, confidence |-> Confidence(r),
         source_brand |-> SourceBrand(source), target_brand |-> matched.brand,
         price_diff_pct |-> (10000 * Abs(matched.price - source.price)) \div source.price]

\* the dict appended to matches by ai_find_house_brand_alternatives;
\* price_diff_pct in hundredths of a percent, reason left out
HbMatch(i, source, r, top) ==
    LET matched == PyIndex(top, r.match_index.val)
    IN  [source_idx |-> i, target_idx |-> matched.idx, confidence |-> Confidence(r),
         source_brand |-> SourceBrand(source), target_brand |-> matched.brand,
         price_diff_pct |-> (10000 * Abs(matched.price - source.price)) \div source.price]

\* the dict appended to matches by ai_match_products
PmMatch(i, r, top) ==
    [source_idx |-> i, target_idx |-> PyIndex(top, r.match_index.val).idx,
     confidence |-> Confidence(r)]

\* the local result as the state keeps it
Result(i, response, r) ==
    [source_idx |-> i,
     status |-> IF response.raise THEN "raised" ELSE r.kind,
     match_index |-> IF response.raise THEN JAbsent ELSE r.match_index,
     confidence |-> IF response.raise THEN JAbsent ELSE r.confidence]

---------------------------------------------------------------------------
(* ai_find_house_brand_alternatives                                        *)

\* get_openrouter_client() returned None: the function returns None
HbNoClient ==
    /\ fn = "house_brand" /\ pc = "start" /\ ~client
    /\ pc' = "done"
    /\ returned' = "None"
    /\ UNCHANGED <<call, fn, client, source_products, target_products, price_tolerance, retailer,
                   idx, matches, top_candidates, product_type_cache, requests, sent, result>>

\* matches = [] and entry into the loop over source_products
HbStart ==
    /\ fn = "house_brand" /\ pc = "start" /\ client
    /\ pc' = "loop"
    /\ idx' = 0
    /\ matches' = << >>
    /\ UNCHANGED <<call, fn, client, source_products, target_products, price_tolerance, retailer,
                   top_candidates, product_type_cache, requests, sent, result, returned>>

\* the names whose product type is asked for: the source's, then those of the
\* first five shortlist entries
TypeNames(source, top) ==
    <<source.name>> \o [k \in 1..Len(Slice(top, 0, TypeLimit)) |-> top[k].name]

\* the part of one iteration after candidate recall and ranking: an empty
\* shortlist ends the iteration, any other is kept for the decision request
Shortlisted(top) ==
    IF top = << >>
    THEN /\ idx' = idx + 1
         /\ pc' = "loop"
         /\ UNCHANGED <<top_candidates, sent>>
    ELSE /\ top_candidates' = top
         /\ sent' = [sent EXCEPT ![idx + 1] = {top[k].idx : k \in 1..Len(top)}]
         /\ pc' = "decide"
         /\ idx' = idx

\* the product-type requests of one iteration
TypeRequests(calls) ==
    /\ product_type_cache' = calls.cache
    /\ requests' = [type |-> calls.requests, decision |-> 0]

HbIteration(source, top, reply) ==
    /\ TypeRequests(ExtractTypes(product_type_cache, TypeNames(source, top), reply))
    /\ Shortlisted(top)

\* preferred_brands
PreferredBrands(source) ==
    IF retailer # ""
    THEN get_preferred_brands(CROSS_BRAND_MAPPING, SourceBrand(source), retailer)
    ELSE << >>

\* top_candidates of a source, none for a source without price
HbShortlist(source, sim) ==
    IF source.price <= 0 THEN << >>
    ELSE TopCandidates(source, target_products, PreferredBrands(source),
                       [k \in 1..Len(target_products) |-> sim])

\* one iteration of the loop up to the decision request: the product type of
\* the source, the skip of a source without price, candidate recall and
\* ranking, the skip of a source without candidates, the product types of the
\* first five candidates.  min_price and max_price are computed from
\* price_tolerance here and never read.
HbSource ==
    /\ fn = "house_brand" /\ pc = "loop" /\ idx < Len(source_products)
    /\ \E reply \in TypeReplies, sim \in TextSims :
        HbIteration(source_products[idx + 1], HbShortlist(source_products[idx + 1], sim), reply)
    /\ result' = NoResult
    /\ UNCHANGED <<call, fn, client, source_products, target_products, price_tolerance, retailer,
                   matches, returned>>

\* a handling that starts the list of matches afresh on an exception
HbHandle_reset(response, r, outcome) ==
    /\ matches' = IF outcome = "match"
                  THEN Append(matches, HbMatch(idx, source_products[idx + 1], r,
                                               top_candidates))
                  ELSE IF outcome = "exception" THEN << >>
                  ELSE matches
    /\ result' = Result(idx, response, r)

\* the handling of a decision response, r being what json.loads returned
HbHandle(response, r, outcome) ==
    /\ matches' = IF outcome = "match"
                  THEN Append(matches, HbMatch(idx, source_products[idx + 1], r,
                                               top_candidates))
                  ELSE matches
    /\ result' = Result(idx, response, r)

HbParsed(response, r) ==
    HbHandle(response, r,
             IF response.raise THEN "exception" ELSE HbOutcome(r, top_candidates))

\* the decision request and the handling of its response
HbDecide ==
    /\ fn = "house_brand" /\ pc = "decide"
    /\ \E response \in Responses : HbParsed(response, json_loads(Repair(response.content)))
    /\ requests' = [requests EXCEPT !.decision = @ + 1]
    /\ idx' = idx + 1
    /\ pc' = "loop"
    /\ UNCHANGED <<call, fn, client, source_products, target_products, price_tolerance, retailer,
                   top_candidates, product_type_cache, sent, returned>>

\* the loop is over: return matches
HbReturn ==
    /\ fn = "house_brand" /\ pc = "loop" /\ idx = Len(source_products)
    /\ pc' = "done"
    /\ returned' = "matches"
    /\ UNCHANGED <<call, fn, client, source_products, target_products, price_tolerance, retailer,
                   idx, matches, top_candidates, product_type_cache, requests, sent, result>>

---------------------------------------------------------------------------
(* ai_match_products                                                       *)

PmNoClient ==
    /\ fn = "price_match" /\ pc = "start" /\ ~client
    /\ pc' = "done"
    /\ returned' = "None"
    /\ UNCHANGED <<call, fn, client, source_products, target_products, price_tolerance, retailer,
                   idx, matches, top_candidates, product_type_cache, requests, sent, result>>

PmStart ==
    /\ fn = "price_match" /\ pc = "start" /\ client
    /\ pc' = "loop"
    /\ idx' = 0
    /\ matches' = << >>
    /\ UNCHANGED <<call, fn, client, source_products, target_products, price_tolerance, retailer,
                   top_candidates, product_type_cache, requests, sent, result, returned>>

\* one iteration up to the decision request: pre-filter, sort, top 15
PmSource ==
    /\ fn = "price_match" /\ pc = "loop" /\ idx < Len(source_products)
    /\ \E sim \in TextSims :
        Shortlisted(PmTopCandidates(source_products[idx + 1], target_products,
                                    [k \in 1..Len(target_products) |-> sim]))
    /\ requests' = NoRequests
    /\ result' = NoResult
    /\ UNCHANGED <<call, fn, client, source_products, target_products, price_tolerance, retailer,
                   matches, product_type_cache, returned>>

\* the handling of a decision response, with the conflict check of the
\* matched name
PmHandle(response, r, outcome) ==
    /\ matches' =
        IF outcome = "match"
           /\ ~check_product_line_conflict(source_products[idx + 1].name,
                    PyIndex(top_candidates, r.match_index.val).name)
        THEN Append(matches, PmMatch(idx, r, top_candidates))
        ELSE matches
    /\ result' = Result(idx, response, r)

PmParsed(response, r) ==
    PmHandle(response, r,
             IF response.raise THEN "exception" ELSE PmOutcome(r, top_candidates))

\* the decision request and the handling of its response
PmDecide ==
    /\ fn = "price_match" /\ pc = "decide"
    /\ \E response \in Responses : PmParsed(response, json_loads(Repair(response.content)))
    /\ requests' = [requests EXCEPT !.decision = @ + 1]
    /\ idx' = idx + 1
    /\ pc' = "loop"
    /\ UNCHANGED <<call, fn, client, source_products, target_products, price_tolerance, retailer,
                   top_candidates, product_type_cache, sent, returned>>

PmReturn ==
    /\ fn = "price_match" /\ pc = "loop" /\ idx = Len(source_products)
    /\ pc' = "done"
    /\ returned' = "matches"
    /\ UNCHANGED <<call, fn, client, source_products, target_products, price_tolerance, retailer,
                   idx, matches, top_candidates, product_type_cache, requests, sent, result>>

Next ==
    \/ HbNoClient \/ HbStart \/ HbSource \/ HbDecide \/ HbReturn
    \/ PmNoClient \/ PmStart \/ PmSource \/ PmDecide \/ PmReturn

Spec == Init /\ [][Next]_vars

---------------------------------------------------------------------------
(* Single functions applied on their own: the variable call holds the      *)
(* arguments and the result of the last application, the variables of the  *)
(* two matchers keep the values of Idle.                                   *)

matcher == <<fn, client, source_products, target_products, price_tolerance, retailer, pc,
             idx, matches, top_candidates, product_type_cache, requests, sent, result,
             returned>>

\* no matcher is running
Idle ==
    /\ fn = "none"
    /\ client = FALSE
    /\ source_products = << >>
    /\ target_products = << >>
    /\ price_tolerance = DefaultTolerance
    /\ retailer = ""
    /\ pc = "done"
    /\ idx = 0
    /\ matches = << >>
    /\ top_candidates = << >>
    /\ product_type_cache = {}
    /\ requests = NoRequests
    /\ sent = << >>
    /\ result = NoResult
    /\ returned = "pending"

\* the spec dicts calculate_spec_score is applied to: a wattage, a brake
\* value, identifiers and numeric values, each present or not, and the dict
\* that holds nothing but a model
WattageValues == {<< >>} \cup {<<n, "W">> : n \in {"7", "8", "9", "10", "15"}}
BrakeValues == {<< >>, <<"HAS_BRAKE">>, <<"NO_BRAKE">>}
IdentifierValues == {<< >>, << <<"TOA">> >>, << <<"TOA">>, <<"NASH">> >>, << <<"NASH">> >>}
NumericValueLists == {<< >>, << <<15000, "W">> >>, << <<15000, "W">>, <<9000, "W">> >>}

ScoreSpecSets ==
    {SpecDict(KeyEntry("wattage", w) \o KeyEntry("brake", b)
              \o KeyEntry("identifiers", ids) \o KeyEntry("numeric_values", nums)) :
        w \in WattageValues, b \in BrakeValues, ids \in IdentifierValues,
        nums \in NumericValueLists}
    \cup {SpecDict(KeyEntry("model", <<"TOA">>))}
    \cup {SpecDict(KeyEntry("led_wattage", <<"LED", " ", n, "W">>)) : n \in {"8", "9", "10"}}

\* the arguments of one application of calculate_spec_score
ScoreInit ==
    /\ Idle
    /\ call \in [op : {"calculate_spec_score"}, source_specs : ScoreSpecSets,
                 target_specs : ScoreSpecSets, done : {FALSE}, ret : {-1}]

\* calculate_spec_score(source_specs, target_specs) returns
ScoreCall ==
    /\ call.op = "calculate_spec_score" /\ ~call.done
    /\ call' = [call EXCEPT !.done = TRUE,
                            !.ret = calculate_spec_score(call.source_specs, call.target_specs)]
    /\ UNCHANGED matcher

ScoreNext == ScoreCall
ScoreSpec == ScoreInit /\ [][ScoreNext]_vars

\* the product names whose sizes are scored: a container of 5 litres written
\* as 5, 5.0 and 5.2 with the Latin and the Thai unit and one of 10 litres,
\* and inch sizes written as fractions and as decimal numbers
SizeNames ==
    {<<"5", " ", "L">>, <<"5", ".", "0", " ", "L">>, <<"5", " ", "th_lit">>,
     <<"5", ".", "2", " ", "L">>, <<"10", " ", "L">>, <<"5", " ", "KG">>,
     <<"1", "/", "2", " ", "th_niw">>, <<"1", "/", "4", " ", "th_niw">>,
     <<"5", "/", "8", " ", "th_niw">>, <<"5", "/", "16", " ", "th_niw">>,
     <<"0", ".", "5", " ", "th_niw">>, <<"3", " ", "th_niw">>,
     <<"3", ".", "1", " ", "th_niw">>, <<"2", ".", "5", " ", "th_niw">>}

\* the arguments of one scoring of a target name against a source name
SizeInit ==
    /\ Idle
    /\ call \in [op : {"score_names"}, source_name : SizeNames, target_name : SizeNames,
                 done : {FALSE}, source_specs : {<< >>}, target_specs : {<< >>}, ret : {-1}]

\* source_specs = extract_size_specs(source_name), the same for the target,
\* and calculate_spec_score(source_specs, target_specs) returns
SizeCall ==
    /\ call.op = "score_names" /\ ~call.done
    /\ call' = [call EXCEPT !.done = TRUE,
                            !.source_specs = extract_size_specs(call.source_name),
                            !.target_specs = extract_size_specs(call.target_name),
                            !.ret = calculate_spec_score(extract_size_specs(call.source_name),
                                                         extract_size_specs(call.target_name))]
    /\ UNCHANGED matcher

SizeNext == SizeCall
SizeSpec == SizeInit /\ [][SizeNext]_vars

\* the sequences of at most n atoms of a set
Texts(atoms, n) == UNION {[1..k -> atoms] : k \in 0..n}

\* the names normalize_text is applied to: blanks, a full stop, a Latin word
\* in both cases, and the Thai unit and finish words of the table, among
\* them the ones that are part of another key
MaxTextLen == 3
TextAtoms == {" ", ".", "toa", "TOA", "th_lit", "th_milli", "th_m", "th_l", "th_s",
              "th_met", "th_senti", "th_dan"}

NormalizeInit ==
    /\ Idle
    /\ call \in [op : {"normalize_text"}, text : Texts(TextAtoms, MaxTextLen),
                 done : {FALSE}, once : {<< >>}, twice : {<< >>}]

\* normalize_text(text), and normalize_text of the result
NormalizeCall ==
    /\ call.op = "normalize_text" /\ ~call.done
    /\ call' = [call EXCEPT !.done = TRUE,
                            !.once = normalize_text(call.text),
                            !.twice = normalize_text(normalize_text(call.text))]
    /\ UNCHANGED matcher

NormalizeNext == NormalizeCall
NormalizeSpec == NormalizeInit /\ [][NormalizeNext]_vars

\* the names the price-match normalize_text is applied to: blanks, the words
\* of a brand alias, and Thai words mapped to a product line, to a unit and
\* to the empty string
PmTextAtoms == {" ", "TOA", "BARGO", "th_run", "th_lit", "th_jotashield", "th_flex"}

PmNormalizeInit ==
    /\ Idle
    /\ call \in [op : {"pm_normalize_text"}, text : Texts(PmTextAtoms, MaxTextLen),
                 done : {FALSE}, once : {<< >>}, twice : {<< >>}]

\* normalize_text(text) of the price-match engine, and normalize_text of the
\* result
PmNormalizeCall ==
    /\ call.op = "pm_normalize_text" /\ ~call.done
    /\ call' = [call EXCEPT !.done = TRUE,
                            !.once = pm_normalize_text(call.text),
                            !.twice = pm_normalize_text(pm_normalize_text(call.text))]
    /\ UNCHANGED matcher

PmNormalizeNext == PmNormalizeCall
PmNormalizeSpec == PmNormalizeInit /\ [][PmNormalizeNext]_vars

\* the URLs normalize_url is applied to: path letters, slashes and question
\* marks in every order
MaxUrlLen == 4
UrlAtoms == {"a", "b", "/", "?"}

UrlInit ==
    /\ Idle
    /\ call \in [op : {"normalize_url"}, url : Texts(UrlAtoms, MaxUrlLen),
                 done : {FALSE}, once : {<< >>}, twice : {<< >>}]

\* normalize_url(url), and normalize_url of the result
UrlCall ==
    /\ call.op = "normalize_url" /\ ~call.done
    /\ call' = [call EXCEPT !.done = TRUE,
                            !.once = normalize_url(call.url),
                            !.twice = normalize_url(normalize_url(call.url))]
    /\ UNCHANGED matcher

UrlNext == UrlCall
UrlSpec == UrlInit /\ [][UrlNext]_vars

\* the products extract_brand is applied to: names with no, one or two known
\* brands, an explicit brand field that is empty or set, and product URLs of
\* each retailer grammar
BrandNames == {<< >>, <<"th_lod", " ", "15", "W">>, <<"TOA", " ", "th_lod">>,
               <<"toa", " ", "th_lod">>, <<"NASH", " ", "TOA">>, <<"SHARK">>,
               <<"th_lod", " ", "NASH">>}
ExplicitBrands == {<< >>, <<"toa">>, <<" ", "NASH", " ">>}
BrandUrls == {<< >>, HomeproUrl,
              <<"https://www.", "homepro.co.th", "/", "p", "/", "kech", "-", "led">>,
              <<"https://www.", "boonthavorn.com", "/", "toa", "-", "led">>,
              <<"https://www.", "boonthavorn.com", "/", "led">>,
              <<"https://www.", "dohome.co.th", "/", "nash", "-", "led">>,
              <<"https://www.", "example.com", "/", "p">>}

BrandInit ==
    /\ Idle
    /\ call \in [op : {"extract_brand"}, product_name : BrandNames,
                 explicit_brand : ExplicitBrands, product_url : BrandUrls,
                 done : {FALSE}, ret : {<< >>}]

\* extract_brand(product_name, explicit_brand, product_url)
BrandCall ==
    /\ call.op = "extract_brand" /\ ~call.done
    /\ call' = [call EXCEPT !.done = TRUE,
                            !.ret = extract_brand(call.product_name, call.explicit_brand,
                                                  call.product_url)]
    /\ UNCHANGED matcher

BrandNext == BrandCall
BrandSpec == BrandInit /\ [][BrandNext]_vars

---------------------------------------------------------------------------
(* The local matcher of the price-match engine: find_similar_products      *)
(* Similarities are kept multiplied by 10.  What rapidfuzz returns for a   *)
(* pair of rows is an argument (lib): the four ratios of the two names,    *)
(* and the token_set_ratio of two brands or categories of which neither    *)
(* token set contains the other.                                           *)

\* calculate_text_similarity(text1, text2), from the four ratios of the texts
calculate_text_similarity(ratios) ==
    2 * ratios[1] + 2 * ratios[2] + 3 * ratios[3] + 3 * ratios[4]

NameSimFloor == 400
SameBrandBonus == 100
SimilarBonus == 50
SimilarAbove == 70
SimilarityCap == 1000

\* the brand step of calculate_weighted_similarity
BrandBonus(name_sim, source_brand, target_brand, brand_sim) ==
    IF source_brand # << >> /\ target_brand # << >>
    THEN IF source_brand = target_brand
         THEN Min(SimilarityCap, name_sim + SameBrandBonus)
         ELSE IF token_set_ratio(source_brand, target_brand, brand_sim) > SimilarAbove
              THEN Min(SimilarityCap, name_sim + SimilarBonus)
              ELSE name_sim
    ELSE name_sim

\* the category step with differing categories rejected
CategoryBonus_reject(name_sim, source_cat, target_cat, cat_sim) ==
    IF source_cat # << >> /\ target_cat # << >>
    THEN IF source_cat # target_cat THEN 0
         ELSE Min(SimilarityCap, name_sim + SimilarBonus)
    ELSE name_sim

\* the category step of calculate_weighted_similarity
CategoryBonus(name_sim, source_cat, target_cat, cat_sim) ==
    IF source_cat # << >> /\ target_cat # << >>
       /\ token_set_ratio(source_cat, target_cat, cat_sim) > SimilarAbove
    THEN Min(SimilarityCap, name_sim + SimilarBonus)
    ELSE name_sim

\* calculate_weighted_similarity(source_row, target_row)
calculate_weighted_similarity(source_row, target_row, lib) ==
    LET source_name == Lower(source_row.name)
        target_name == Lower(target_row.name)
        name_sim == calculate_text_similarity(lib.ratios)
    IN  IF source_name = << >> \/ target_name = << >> THEN 0
        ELSE IF name_sim < NameSimFloor THEN 0
        ELSE CategoryBonus(
                BrandBonus(name_sim, Strip(Lower(source_row.brand)),
                           Strip(Lower(target_row.brand)), lib.brand_sim),
                Strip(Lower(source_row.category)), Strip(Lower(target_row.category)),
                lib.cat_sim)

\* the loop over target_df from row idx2 on: best_match (its row number, 0
\* for None) and best_similarity
RECURSIVE BestMatch(_, _, _, _, _)
BestMatch(row1, target_df, libs, idx2, best) ==
    IF idx2 > Len(target_df) THEN best
    ELSE LET similarity == calculate_weighted_similarity(row1, target_df[idx2], libs[idx2])
         IN  BestMatch(row1, target_df, libs, idx2 + 1,
                       IF similarity > best.best_similarity
                       THEN [best_match |-> idx2, best_similarity |-> similarity]
                       ELSE best)

AdjustedFloor == 30
AdjustedDrop == 20

\* the body of the loop over source_df: the match appended for row1, if any
MatchOfRow(row1, target_df, libs, similarity_threshold) ==
    LET best == BestMatch(row1, target_df, libs, 1, [best_match |-> 0, best_similarity |-> 0])
        adjusted_threshold == Max(AdjustedFloor, similarity_threshold - AdjustedDrop)
    IN  IF best.best_match # 0 /\ best.best_similarity >= 10 * adjusted_threshold
        THEN << [source_product |-> row1.name,
                 target_product |-> target_df[best.best_match].name,
                 target_row |-> best.best_match,
                 similarity_score |-> best.best_similarity] >>
        ELSE << >>

\* find_similar_products(source_df, target_df, similarity_threshold)
RECURSIVE find_similar_products(_, _, _, _)
find_similar_products(source_df, target_df, libs, similarity_threshold) ==
    IF source_df = << >> THEN << >>
    ELSE MatchOfRow(Head(source_df), target_df, Head(libs), similarity_threshold)
         \o find_similar_products(Tail(source_df), target_df, Tail(libs), similarity_threshold)

\* the rows find_similar_products is applied to.  A source row with or
\* without name, brand and category; target rows whose brand and category
\* equal the source's up to case and blanks, or differ from it
MaxFallbackTargets == 2
FallbackName == <<"toa", " ", "th_lod">>
FallbackSources ==
    {[name |-> << >>, brand |-> <<"toa">>, category |-> <<"PAINT">>]}
    \cup {[name |-> FallbackName, brand |-> b, category |-> c] :
            b \in {<< >>, <<"toa">>}, c \in {<< >>, <<"PAINT">>}}
FallbackRatios == {<<39, 39, 39, 39>>, <<40, 40, 40, 40>>, <<100, 100, 100, 100>>}
FallbackBrands == {<< <<"TOA", " ">>, 20 >>, << <<"nash">>, 20 >>, << <<"nash">>, 80 >>}
FallbackCategories == {<< <<" ", "paint">>, 20 >>, << <<"tools">>, 20 >>, << <<"tools">>, 80 >>}
FallbackTargets ==
    {[row |-> [name |-> << >>, brand |-> <<"nash">>, category |-> <<"tools">>],
      lib |-> [ratios |-> <<100, 100, 100, 100>>, brand_sim |-> 20, cat_sim |-> 20]]}
    \cup {[row |-> [name |-> <<"NASH", " ", "th_lod">>, brand |-> b[1], category |-> c[1]],
           lib |-> [ratios |-> r, brand_sim |-> b[2], cat_sim |-> c[2]]] :
            r \in FallbackRatios, b \in FallbackBrands, c \in FallbackCategories}
\* a threshold above the default of 60, so that the adjusted threshold (50)
\* lies above the floor under which a similarity is counted as 0 (40)
FallbackThresholds == {70}

FallbackInit ==
    /\ Idle
    /\ \E source_row \in FallbackSources, similarity_threshold \in FallbackThresholds :
       \E n \in 1..MaxFallbackTargets : \E targets \in [1..n -> FallbackTargets] :
          call = [op |-> "find_similar_products",
                  source_df |-> <<source_row>>,
                  target_df |-> [i \in 1..n |-> targets[i].row],
                  libs |-> << [i \in 1..n |-> targets[i].lib] >>,
                  similarity_threshold |-> similarity_threshold,
                  done |-> FALSE, ret |-> << >>]

\* find_similar_products(source_df, target_df, similarity_threshold)
FallbackCall ==
    /\ call.op = "find_similar_products" /\ ~call.done
    /\ call' = [call EXCEPT !.done = TRUE,
                            !.ret = find_similar_products(call.source_df, call.target_df,
                                                          call.libs, call.similarity_threshold)]
    /\ UNCHANGED matcher

FallbackNext == FallbackCall
FallbackSpec == FallbackInit /\ [][FallbackNext]_vars

---------------------------------------------------------------------------
(* The ranker on its own: the sorts, the quality gate and the cut of       *)
(* ai_find_house_brand_alternatives, applied to the entries a recall loop  *)
(* can leave.  An entry holds the keys the ranker reads.                   *)

\* a candidate of a tier with no brand or model boost
GateEntry(i, tier, spec_score, text_sim) ==
    [idx |-> i, tier |-> tier, spec_score |-> spec_score,
     combined_score |-> IF tier = "spec" THEN spec_score * 80 + text_sim * 15
                        ELSE spec_score * 60 + text_sim * 25]

\* the kinds of the entries in catalog order: h spec-tier entries of
\* spec_score >= 60 ("H"), l spec-tier entries admitted for their critical
\* spec matches with a lower spec_score ("L"), f fuzzy-tier entries ("F")
GateKinds(h, l, f, pattern) ==
    CASE pattern = 1 -> [k \in 1..h |-> "H"] \o [k \in 1..l |-> "L"] \o [k \in 1..f |-> "F"]
      [] pattern = 2 -> [k \in 1..f |-> "F"] \o [k \in 1..l |-> "L"] \o [k \in 1..h |-> "H"]
      [] pattern = 3 -> [k \in 1..l |-> "L"] \o [k \in 1..h |-> "H"] \o [k \in 1..f |-> "F"]
      [] pattern = 4 -> [k \in 1..h |-> "H"] \o [k \in 1..f |-> "F"] \o [k \in 1..l |-> "L"]

\* the entry of catalog index i: scores that repeat (pattern 1), that differ
\* from entry to entry (pattern 2), that are all equal (pattern 3), equal
\* spec_scores with different combined_scores and fuzzy entries whose
\* combined_score is the higher where the spec_score is the lower (pattern 4)
GateEntryOf(i, kind, pattern) ==
    CASE kind = "H" ->
            GateEntry(i, "spec",
                      CASE pattern = 1 -> 60 + 20 * (i % 3) [] pattern = 2 -> 60 + (i % 41)
                        [] pattern = 3 -> 60 [] pattern = 4 -> 60 + 20 * (i % 2),
                      CASE pattern = 1 -> 50 [] pattern = 2 -> (7 * i) % 101 [] pattern = 3 -> 50
                        [] pattern = 4 -> 10 * (i % 7))
      [] kind = "L" ->
            GateEntry(i, "spec",
                      CASE pattern = 1 -> 10 + 20 * (i % 3) [] pattern = 2 -> i % 60
                        [] pattern = 3 -> 59 [] pattern = 4 -> 50,
                      CASE pattern = 1 -> 50 [] pattern = 2 -> (7 * i) % 101 [] pattern = 3 -> 50
                        [] pattern = 4 -> 10 * (i % 5))
      [] kind = "F" ->
            GateEntry(i, "fuzzy",
                      CASE pattern = 1 -> 0 [] pattern = 2 -> i % 60 [] pattern = 3 -> 59
                        [] pattern = 4 -> 30 * (i % 2),
                      CASE pattern = 1 -> 15 + 10 * (i % 4) [] pattern = 2 -> 15 + ((11 * i) % 86)
                        [] pattern = 3 -> 15 [] pattern = 4 -> 95 - 80 * (i % 2))

GateEntries(h, l, f, pattern) ==
    LET kinds == GateKinds(h, l, f, pattern)
    IN  [k \in 1..(h + l + f) |-> GateEntryOf(k - 1, kinds[k], pattern)]

\* the numbers of entries of each kind: none, around the gate's count of 3,
\* and GateExtra more than each limit of the gate
GateExtra == 1
HighCounts == {0, HighQualityCount - 1, HighQualityCount, SpecLimit + GateExtra}
LowCounts == {0, 1, ShortlistLimit - HighQualityCount + 1, ShortlistLimit + GateExtra}
FuzzyCounts == {0, 1, FuzzyLimit + GateExtra, ShortlistLimit + GateExtra}
GatePatterns == 1..4

\* the most spec-tier entries of a call: more than the shortlist holds, with
\* up to HighQualityCount - 1 of them of high quality
MaxSpecTier == ShortlistLimit + GateExtra + HighQualityCount - 1

GateInit ==
    /\ Idle
    /\ \E h \in HighCounts, l \in LowCounts, f \in FuzzyCounts, pattern \in GatePatterns :
          /\ h + l <= MaxSpecTier
          /\ call = [op |-> "rank", entries |-> GateEntries(h, l, f, pattern),
                     done |-> FALSE, ret |-> << >>]

\* the sorts, the quality gate, the final sort and top_candidates = candidates[:40]
GateCall ==
    /\ call.op = "rank" /\ ~call.done
    /\ call' = [call EXCEPT !.done = TRUE, !.ret = Rank(call.entries)]
    /\ UNCHANGED matcher

GateNext == GateCall
GateSpec == GateInit /\ [][GateNext]_vars

\* the names has_product_conflict is applied to: caster wheels with and
\* without brake in both spellings and in English, a wheel with no brake
\* term, and containers of two volumes
ConflictNames ==
    {<< >>, <<"th_lo">>,
     <<"th_lo", " ", "th_mai", "th_mibrek">>, <<"th_lo", " ", "th_mibrek">>,
     <<"th_lo", " ", "th_mai", "th_mibrek2">>, <<"th_lo", " ", "th_mibrek2">>,
     <<"th_lo", " ", "no", " ", "brake">>, <<"th_lo", " ", "with", " ", "brake">>,
     <<"TOA", " ", "5", " ", "L">>, <<"TOA", " ", "15", " ", "L">>}

ConflictInit ==
    /\ Idle
    /\ call \in [op : {"has_product_conflict"}, source_name : ConflictNames,
                 target_name : ConflictNames, done : {FALSE}, ret : {FALSE}]

\* has_product_conflict(source_name, target_name)
ConflictCall ==
    /\ call.op = "has_product_conflict" /\ ~call.done
    /\ call' = [call EXCEPT !.done = TRUE,
                            !.ret = has_product_conflict(call.source_name, call.target_name)]
    /\ UNCHANGED matcher

ConflictNext == ConflictCall
ConflictSpec == ConflictInit /\ [][ConflictNext]_vars

\* the names check_product_line_conflict is applied to: the JOTUN and JBP
\* paint lines in Latin and Thai writing, alone and two in one name
LineNames ==
    {<< >>, <<"JOTUN", " ", "JOTASHIELD">>, <<"JOTUN", " ", "JOTASHIELD", " ", "FLEX">>,
     <<"jotun", " ", "jotashield", " ", "flex">>, <<"TOUGH", " ", "SHIELD">>,
     <<"FUTURESHIELD">>, <<"th_jotashield">>, <<"th_jotashield", "th_flex">>,
     <<"TOUGH", " ", "SHIELD", " ", "JOTASHIELD">>, <<"SHARK">>}

LineInit ==
    /\ Idle
    /\ call \in [op : {"check_product_line_conflict"}, source_name : LineNames,
                 target_name : LineNames, done : {FALSE}, ret : {FALSE}, swapped : {FALSE}]

\* check_product_line_conflict(source_name, target_name), and the call with
\* the two names exchanged
LineCall ==
    /\ call.op = "check_product_line_conflict" /\ ~call.done
    /\ call' = [call EXCEPT
                  !.done = TRUE,
                  !.ret = check_product_line_conflict(call.source_name, call.target_name),
                  !.swapped = check_product_line_conflict(call.target_name, call.source_name)]
    /\ UNCHANGED matcher

LineNext == LineCall
LineSpec == LineInit /\ [][LineNext]_vars

---------------------------------------------------------------------------
(* ai_extract_product_type called again and again in one process: the     *)
(* module's cache lives as long as the process, each call names a product  *)
(* and is made with or without a client, and its request raises or         *)
(* returns a text.  The record call logs, for every name, the calls made   *)
(* with a client and the requests issued, and the names whose request      *)
(* raised.                                                                 *)

MaxTypeCalls == 4
TypeCallNames == {<< >>, <<"TOA">>, <<"NASH">>, <<"th_lo">>}

\* _product_type_cache[cache_key] for a name in the cache
CachedType(cache, product_name) == (CHOOSE e \in cache : e.key = product_name).value

\* what ai_extract_product_type(product_name, client) returns, given the
\* cache after the call
ReturnedType(cache, product_name, has_client) ==
    IF product_name = << >> \/ ~has_client THEN << >>
    ELSE CachedType(cache, product_name)

TypeInit ==
    /\ Idle
    /\ call = [op |-> "ai_extract_product_type", calls |-> 0, product_name |-> << >>,
               has_client |-> FALSE, ret |-> << >>,
               asked |-> [n \in TypeCallNames |-> 0],
               requested |-> [n \in TypeCallNames |-> 0],
               raised |-> {}]

\* one call ai_extract_product_type(product_name, client)
TypeCall ==
    /\ call.op = "ai_extract_product_type" /\ call.calls < MaxTypeCalls
    /\ \E product_name \in TypeCallNames, has_client \in BOOLEAN, reply \in TypeReplies :
          LET r == IF has_client
                   THEN ai_extract_product_type(product_type_cache, product_name, reply)
                   ELSE [cache |-> product_type_cache, requests |-> 0]
          IN  /\ product_type_cache' = r.cache
              /\ call' = [call EXCEPT
                            !.calls = @ + 1,
                            !.product_name = product_name,
                            !.has_client = has_client,
                            !.ret = ReturnedType(r.cache, product_name, has_client),
                            !.asked[product_name] = IF has_client THEN @ + 1 ELSE @,
                            !.requested[product_name] = @ + r.requests,
                            !.raised = IF r.requests = 1 /\ reply = "raise"
                                       THEN @ \cup {product_name} ELSE @]
    /\ UNCHANGED <<fn, client, source_products, target_products, price_tolerance, retailer,
                   pc, idx, matches, top_candidates, requests, sent, result, returned>>

TypeNext == TypeCall
TypeSpec == TypeInit /\ [][TypeNext]_vars

---------------------------------------------------------------------------
(* Properties                                                              *)

\* C1: in ai_find_house_brand_alternatives a response is accepted as a match
\* only if its match_index i satisfies 0 <= i < len(shortlist); for every
\* other integer index the source product of the decision gets no match.
C1_IndexWithinShortlist ==
    (/\ fn = "house_brand" /\ pc \in {"loop", "done"} /\ result.status = "object"
     /\ result.match_index.kind = "int"
     /\ ~(0 <= result.match_index.val /\ result.match_index.val < Len(top_candidates)))
    => \A k \in 1..Len(matches) : matches[k].source_idx # result.source_idx

\* C2: every match of either function has a target_idx that is the catalog
\* index of an entry of the shortlist built for the same source product.
C2_TargetFromShortlist ==
    \A k \in 1..Len(matches) :
        /\ matches[k].source_idx \in 0..(Len(source_products) - 1)
        /\ matches[k].target_idx \in sent[matches[k].source_idx + 1]
        /\ matches[k].target_idx \in 0..(Len(target_products) - 1)

\* a house-brand match was taken from a shortlist whose catalog indexes
\* differ from the positions
C2_Witness ==
    /\ fn = "house_brand"
    /\ \E k \in 1..Len(matches) :
        /\ sent[matches[k].source_idx + 1] # 0..(Cardinality(sent[matches[k].source_idx + 1]) - 1)
        /\ matches[k].target_idx >= Cardinality(sent[matches[k].source_idx + 1])

\* C3: a target whose resolved brand equals the non-empty resolved brand of
\* the source is in no shortlist of that source and in no match, also when
\* the two names are identical.
C3_SameBrandSkipped ==
    fn = "house_brand" =>
        /\ \A i \in 1..Len(source_products) : \A j \in sent[i] :
                ~(/\ source_brands[source_products[i]] # << >>
                  /\ source_brands[source_products[i]] = target_brands[target_products[j + 1]])
        /\ \A k \in 1..Len(matches) :
                ~(/\ matches[k].source_brand # << >>
                  /\ matches[k].source_brand = matches[k].target_brand)

\* a shortlist was built from a catalog that holds a target of the source's
\* brand and name
C3_Witness ==
    /\ fn = "house_brand" /\ pc = "decide"
    /\ \E j \in 1..Len(target_products) :
        /\ target_products[j].name = source_products[idx + 1].name
        /\ target_brands[target_products[j]] = source_brands[source_products[idx + 1]]

\* C4: every match of ai_find_house_brand_alternatives passes the same-brand
\* check of validate_house_brand_match, which resolves both brands from the
\* explicit field, else from the name, without the URL.
C4_PassesValidatorBrandCheck ==
    fn = "house_brand" =>
        \A k \in 1..Len(matches) :
            LET source == source_products[matches[k].source_idx + 1]
                target == target_products[matches[k].target_idx + 1]
            IN  ~(/\ extract_brand(source.name, source.brand, << >>) # << >>
                  /\ extract_brand(source.name, source.brand, << >>)
                        = extract_brand(target.name, target.brand, << >>))

\* C5: a target in conflict with the source (has_product_conflict) is in no
\* shortlist of that source.
C5_ConflictNeverShortlisted ==
    fn = "house_brand" =>
        \A i \in 1..Len(source_products) : \A j \in sent[i] :
            ~product_conflicts[source_products[i].name, target_products[j + 1].name]

\* a shortlist was built from a catalog that holds a has-brake wheel for a
\* no-brake source
C5_Witness ==
    /\ fn = "house_brand" /\ pc = "decide"
    /\ \E j \in 1..Len(target_products) :
        product_conflicts[source_products[idx + 1].name, target_products[j].name]

\* C6: no fuzzy-tier entry of a shortlist differs in price from the source by
\* more than 60%, no spec-tier entry by more than 100%; sources and targets
\* with a price <= 0 are never admitted.
C6_PriceLimits ==
    (fn = "house_brand" /\ pc = "decide") =>
        \A k \in 1..Len(top_candidates) :
            LET c == top_candidates[k]
                source_price == source_products[idx + 1].price
            IN  /\ source_price > 0
                /\ c.price > 0
                /\ c.price = target_products[c.idx + 1].price
                /\ c.tier = "fuzzy" => 100 * Abs(c.price - source_price) <= 60 * source_price
                /\ c.tier = "spec" => 100 * Abs(c.price - source_price) <= 100 * source_price

\* a shortlist holds a fuzzy entry at exactly 60% and the catalog a target
\* at 70% or without price
C6_Witness ==
    /\ fn = "house_brand" /\ pc = "decide"
    /\ \E k \in 1..Len(top_candidates) :
        /\ top_candidates[k].tier = "fuzzy"
        /\ 100 * Abs(top_candidates[k].price - source_products[idx + 1].price)
                = 60 * source_products[idx + 1].price
    /\ \E j \in 1..Len(target_products) : target_products[j].price \in {0, 170}

\* C7: every match of a call with price_tolerance = p has a price difference
\* |target_price - source_price| / source_price of at most p.
C7_WithinPriceTolerance ==
    fn = "house_brand" =>
        \A k \in 1..Len(matches) :
            LET source_price == source_products[matches[k].source_idx + 1].price
                target_price == target_products[matches[k].target_idx + 1].price
            IN  100 * Abs(target_price - source_price) <= price_tolerance * source_price

\* C8: a response whose confidence is below 60, or that has no confidence
\* field, produces no match, whatever its match_index.
C8_LowConfidenceNoMatch ==
    (/\ fn = "house_brand" /\ pc \in {"loop", "done"} /\ result.status = "object"
     /\ \/ result.confidence.kind = "absent"
        \/ result.confidence.kind = "int" /\ result.confidence.val < 60)
    => \A k \in 1..Len(matches) : matches[k].source_idx # result.source_idx

\* a response named the first shortlist entry with confidence 59
C8_Witness ==
    /\ fn = "house_brand" /\ result.status = "object"
    /\ result.match_index = JInt(0)
    /\ result.confidence = JInt(59)

\* C9: when the decision request of a source product raises, or returns text
\* that is unparsable after the repair, that source gets no match, the
\* recorded matches stay as they are and the loop goes on with the next
\* source; the loop leaves no source product out, and the run ends by
\* returning the list of matches.
C9_FailureIsLocal ==
    /\ [][(fn = "house_brand" /\ pc = "decide" /\ result'.status \in {"raised", "error"})
            => (/\ matches' = matches
                /\ idx' = idx + 1
                /\ pc' = "loop"
                /\ returned' = "pending")]_vars
    /\ [][(fn = "house_brand" /\ client /\ pc' = "done" /\ pc # "done")
            => (/\ idx = Len(source_products)
                /\ returned' = "matches"
                /\ matches' = matches)]_vars
    /\ []((fn = "house_brand" /\ pc = "loop") => idx <= Len(source_products))
    /\ []((fn = "house_brand" /\ result.status \in {"raised", "error"})
            => \A k \in 1..Len(matches) : matches[k].source_idx # result.source_idx)

\* the decision request of the second source failed after the first source
\* was matched, and the run returned
C9_Witness ==
    /\ fn = "house_brand" /\ pc = "done" /\ returned = "matches"
    /\ result.status \in {"raised", "error"}
    /\ result.source_idx > 0
    /\ matches # << >>

Without(d, k) == [x \in DOMAIN d \ {k} |-> d[x]]

\* the weight of a key of spec_weights
Weight(k) == spec_weights[CHOOSE i \in 1..Len(spec_weights) : spec_weights[i][1] = k][2]

\* total_weight and matched_weight (in tenths) from everything but the key k
RestTotal(source_specs, target_specs, k) ==
    WeightedTotal(spec_weights, Without(source_specs, k))
    + IdBonus(source_specs, target_specs)[2] + NumBonus(source_specs, target_specs)[2]

RestMatched10(source_specs, target_specs, k) ==
    WeightedMatched10(spec_weights, Without(source_specs, k), target_specs)
    + 10 * IdBonus(source_specs, target_specs)[1]
    + 10 * NumBonus(source_specs, target_specs)[1]

\* calculate_spec_score has returned
Scored_ == call.op = "calculate_spec_score" /\ call.done

\* C11: calculate_spec_score returns an integer from 0 to 100, the matched
\* weight with the identifier and numeric-value bonuses never exceeds the
\* total weight, and an empty source spec set gives 50 for every target.
C11_ScoreInRange ==
    Scored_ =>
        /\ call.ret \in 0..100
        /\ RestMatched10(call.source_specs, call.target_specs, "")
                <= 10 * RestTotal(call.source_specs, call.target_specs, "")
        /\ DOMAIN call.source_specs = {} => call.ret = 50

\* both bonuses were earned in full, with two common identifiers
C11_Witness ==
    /\ Scored_
    /\ "identifiers" \in DOMAIN call.source_specs /\ "identifiers" \in DOMAIN call.target_specs
    /\ Len(call.source_specs["identifiers"]) = 2
    /\ call.source_specs["identifiers"] = call.target_specs["identifiers"]
    /\ "numeric_values" \in DOMAIN call.source_specs
    /\ "numeric_values" \in DOMAIN call.target_specs
    /\ call.ret = 100

\* C12: a categorical key present on both sides with different values adds
\* its full weight to the total and nothing to the matched weight, however
\* the other keys compare.
C12_CategoricalMismatch ==
    (/\ Scored_
     /\ "brake" \in DOMAIN call.source_specs /\ "brake" \in DOMAIN call.target_specs
     /\ call.source_specs["brake"] # call.target_specs["brake"])
    => call.ret = PyPercent(RestMatched10(call.source_specs, call.target_specs, "brake"),
                            RestTotal(call.source_specs, call.target_specs, "brake")
                            + Weight("brake"))

\* the brake values differ while the wattage, the identifiers and the numeric
\* values all match
C12_Witness ==
    /\ Scored_
    /\ DOMAIN call.source_specs = {"wattage", "brake", "identifiers", "numeric_values"}
    /\ DOMAIN call.target_specs = DOMAIN call.source_specs
    /\ call.source_specs["brake"] # call.target_specs["brake"]
    /\ Without(call.source_specs, "brake") = Without(call.target_specs, "brake")
    /\ call.ret < 100

\* the credit, in tenths of a weight point, of the bands the claim states for
\* source value sn > 0 and target value tn # sn
BandCredit10(weight, sn, tn) ==
    IF 10 * Abs(sn - tn) <= sn THEN 8 * weight
    ELSE IF 10 * Abs(sn - tn) <= 2 * sn THEN 5 * weight
    ELSE IF 10 * Abs(sn - tn) <= 3 * sn THEN 2 * weight
    ELSE 0

\* the number of a wattage or led_wattage value
Watts(v) == NumValue[FirstNumber(v, 0)[1]]

\* C13: for wattage and led_wattage present on both sides with differing
\* values, the source value being positive, the key earns 80% of its weight
\* within 10%, 50% within 20%, 20% within 30% and nothing beyond: 15 W
\* against 9 W earns nothing.
C13_WattageBands ==
    Scored_ =>
        \A k \in {"wattage", "led_wattage"} :
            (/\ k \in DOMAIN call.source_specs /\ k \in DOMAIN call.target_specs
             /\ call.source_specs[k] # call.target_specs[k])
            => call.ret
                = PyPercent(RestMatched10(call.source_specs, call.target_specs, k)
                            + BandCredit10(Weight(k), Watts(call.source_specs[k]),
                                           Watts(call.target_specs[k])),
                            RestTotal(call.source_specs, call.target_specs, k) + Weight(k))

\* 15 W against 9 W, the wattage being the only key
C13_Witness ==
    /\ Scored_
    /\ call.source_specs = SpecDict(KeyEntry("wattage", <<"15", "W">>))
    /\ call.target_specs = SpecDict(KeyEntry("wattage", <<"9", "W">>))
    /\ call.ret = 0

\* C14 as stated: a key the source has and the target lacks does not lower
\* the score, the score is what the other keys alone give.
C14_AbsentKeyNotCounted ==
    Scored_ =>
        \A k \in {"wattage", "brake"} :
            (/\ k \in DOMAIN call.source_specs /\ k \notin DOMAIN call.target_specs
             /\ RestTotal(call.source_specs, call.target_specs, k) > 0)
            => call.ret >= PyPercent(RestMatched10(call.source_specs, call.target_specs, k),
                                     RestTotal(call.source_specs, call.target_specs, k))

\* C14 amended: a weighted key the source has and the target lacks adds its
\* weight to the total and nothing to the matched weight, as a mismatch
\* without partial credit does, so it lowers the score of a target that
\* matches on another key; a key only the target has changes nothing.
C14_AbsentKeyCountsInTotal ==
    Scored_ =>
        /\ \A k \in {"wattage", "brake"} :
            (k \in DOMAIN call.source_specs /\ k \notin DOMAIN call.target_specs)
            => /\ call.ret
                    = PyPercent(RestMatched10(call.source_specs, call.target_specs, k),
                                RestTotal(call.source_specs, call.target_specs, k) + Weight(k))
               /\ RestTotal(call.source_specs, call.target_specs, k) > 0
                    => call.ret <= PyPercent(
                            RestMatched10(call.source_specs, call.target_specs, k),
                            RestTotal(call.source_specs, call.target_specs, k))
        /\ \A k \in {"wattage", "brake"} :
            (k \notin DOMAIN call.source_specs /\ k \in DOMAIN call.target_specs)
            => call.ret = calculate_spec_score(call.source_specs,
                                               Without(call.target_specs, k))

\* the target matches the brake of the source and lacks its wattage: 50
\* instead of the 100 the brake alone gives
C14_Witness ==
    /\ Scored_
    /\ DOMAIN call.source_specs = {"wattage", "brake"}
    /\ DOMAIN call.target_specs = {"brake"}
    /\ call.source_specs["brake"] = call.target_specs["brake"]
    /\ call.ret = 50

\* C15: the house-brand normalize_text is idempotent and total, and maps the
\* empty string to the empty string.
C15_NormalizeIdempotent ==
    (call.op = "normalize_text" /\ call.done) =>
        /\ call.twice = call.once
        /\ call.text = << >> => call.once = << >>

\* a name with surrounding blanks, a lower-case word and a unit word was
\* changed by the first application
C15_Witness ==
    /\ call.op = "normalize_text" /\ call.done
    /\ call.text = <<" ", "toa", "th_lit">>
    /\ call.once = <<"TOA", "L">>

\* C16: normalize_url is idempotent, and its result holds no question mark
\* and does not end in a slash.
C16_UrlIdempotent ==
    (call.op = "normalize_url" /\ call.done) =>
        /\ call.twice = call.once
        /\ ~Contains(call.once, <<"?">>)
        /\ ~EndsWith(call.once, <<"/">>)

\* a URL with trailing slashes before its query string
C16_Witness ==
    /\ call.op = "normalize_url" /\ call.done
    /\ call.url = <<"a", "/", "?", "b">>
    /\ call.once = <<"a">>

\* C17: extract_brand resolves a brand in this precedence: a non-empty
\* explicit brand wins; otherwise the longest known brand found in the
\* upper-cased name; only when the name holds no known brand, the brand
\* inferred from the URL.
C17_NameBeforeUrl ==
    (call.op = "extract_brand" /\ call.done) =>
        LET in_name == FirstBrandIn(KnownBrandsByLength, Upper(call.product_name))
        IN  call.ret = IF call.explicit_brand # << >>
                       THEN Strip(Upper(call.explicit_brand))
                       ELSE IF in_name # << >> THEN in_name
                       ELSE extract_brand_from_url(call.product_url)

\* the two rows have non-empty categories that differ
CategoryMismatch(source_row, target_row) ==
    /\ Strip(Lower(source_row.category)) # << >>
    /\ Strip(Lower(target_row.category)) # << >>
    /\ Strip(Lower(source_row.category)) # Strip(Lower(target_row.category))

Matched_ == call.op = "find_similar_products" /\ call.done

\* C18 as stated: the local matcher gives a source and a target whose
\* non-empty categories differ the similarity 0 and never returns the pair
\* as a match, whatever their name similarity.
C18_CategoryMismatchRejected ==
    Matched_ =>
        \A i \in 1..Len(call.target_df) :
            CategoryMismatch(call.source_df[1], call.target_df[i]) =>
                /\ calculate_weighted_similarity(call.source_df[1], call.target_df[i],
                                                 call.libs[1][i]) = 0
                /\ \A m \in 1..Len(call.ret) : call.ret[m].target_row # i

\* C18, amended: the category never lowers the similarity.  A target gets the
\* similarity it would get with no category, plus 5 (capped at 100) exactly
\* when both categories are non-empty and their token_set_ratio exceeds 70;
\* the first target of the highest similarity is returned as the match when
\* that similarity is positive and reaches max(30, threshold - 20), and a
\* source with no such target has no match.
C18_CategoryIsBonusOnly ==
    Matched_ =>
        LET row1 == call.source_df[1]
            n == Len(call.target_df)
            sim == [i \in 1..n |->
                      calculate_weighted_similarity(row1, call.target_df[i], call.libs[1][i])]
            bare == [i \in 1..n |->
                       calculate_weighted_similarity(
                          row1, [call.target_df[i] EXCEPT !.category = << >>], call.libs[1][i])]
            bonus(i) == /\ Strip(Lower(row1.category)) # << >>
                        /\ Strip(Lower(call.target_df[i].category)) # << >>
                        /\ token_set_ratio(Strip(Lower(row1.category)),
                                           Strip(Lower(call.target_df[i].category)),
                                           call.libs[1][i].cat_sim) > 70
            top == CHOOSE i \in 1..n :
                      /\ \A j \in 1..n : sim[j] <= sim[i]
                      /\ \A j \in 1..(i - 1) : sim[j] < sim[i]
            floor == IF call.similarity_threshold - 20 > 30
                     THEN call.similarity_threshold - 20 ELSE 30
        IN  /\ \A i \in 1..n :
                 sim[i] = IF bonus(i) /\ bare[i] > 0
                          THEN (IF bare[i] + 50 > 1000 THEN 1000 ELSE bare[i] + 50)
                          ELSE bare[i]
            /\ IF sim[top] > 0 /\ sim[top] >= 10 * floor
               THEN /\ Len(call.ret) = 1
                    /\ call.ret[1].target_row = top
                    /\ call.ret[1].similarity_score = sim[top]
               ELSE call.ret = << >>

\* a target of another category, with no category bonus, was returned as the
\* match, ahead of a second target
C18_Witness ==
    /\ Matched_
    /\ Len(call.target_df) = 2
    /\ Len(call.ret) = 1
    /\ CategoryMismatch(call.source_df[1], call.target_df[call.ret[1].target_row])
    /\ call.libs[1][call.ret[1].target_row].cat_sim <= 70
    /\ call.ret[1].target_row = 2

Ranked_ == call.op = "rank" /\ call.done

\* the candidates of a tier the recall loop left, those of high quality, and
\* the candidates of the shortlist
SpecTier_ == {call.entries[k] : k \in {j \in 1..Len(call.entries) : call.entries[j].tier = "spec"}}
FuzzyTier_ == {call.entries[k] : k \in {j \in 1..Len(call.entries) : call.entries[j].tier = "fuzzy"}}
HighQuality_ == {c \in SpecTier_ : c.spec_score >= 60}
Kept_ == {call.ret[k] : k \in 1..Len(call.ret)}

\* the fuzzy-tier candidates of the shortlist are the n of the highest
\* combined_score, the earlier catalog entry first among equal ones
FuzzyKept(n) ==
    /\ Cardinality(Kept_ \cap FuzzyTier_) = n
    /\ \A k \in Kept_ \cap FuzzyTier_, d \in FuzzyTier_ \ Kept_ :
          \/ k.combined_score > d.combined_score
          \/ k.combined_score = d.combined_score /\ k.idx < d.idx

\* the shortlist holds candidates of the recall loop, each once, in rank order
Shortlist_ ==
    /\ Kept_ \subseteq SpecTier_ \cup FuzzyTier_
    /\ Cardinality(Kept_) = Len(call.ret)
    /\ \A j \in 1..(Len(call.ret) - 1) : ~Before(call.ret[j + 1], call.ret[j], "tier_priority")

\* C19 as stated: when at least 3 spec-tier candidates have spec_score >= 60,
\* the shortlist consists of the 30 highest-ranked spec-tier candidates (all
\* of them when there are fewer than 30) plus the 10 highest-ranked
\* fuzzy-tier candidates (all when fewer than 10).
C19_TopSpecAndTopFuzzy ==
    (Ranked_ /\ Cardinality(HighQuality_) >= 3) =>
        /\ Kept_ \subseteq SpecTier_ \cup FuzzyTier_
        /\ Cardinality(Kept_ \cap SpecTier_) = Min(30, Cardinality(SpecTier_))
        /\ \A k \in Kept_ \cap SpecTier_, d \in SpecTier_ \ Kept_ : k.spec_score >= d.spec_score
        /\ Cardinality(Kept_ \cap FuzzyTier_) = Min(10, Cardinality(FuzzyTier_))
        /\ \A k \in Kept_ \cap FuzzyTier_, d \in FuzzyTier_ \ Kept_ :
              k.combined_score >= d.combined_score

\* C19, amended: in the high-quality case the shortlist holds spec-tier
\* candidates of spec_score >= 60 only: the 30 of the highest spec_score (all
\* of them when fewer than 30), and no spec-tier candidate of a lower score
\* however few the others are; plus the 10 fuzzy-tier candidates of the
\* highest combined_score (all when fewer than 10).
C19_TopHighQualityAndTopFuzzy ==
    (Ranked_ /\ Cardinality(HighQuality_) >= 3) =>
        /\ Shortlist_
        /\ Kept_ \cap SpecTier_ \subseteq HighQuality_
        /\ Cardinality(Kept_ \cap SpecTier_) = Min(30, Cardinality(HighQuality_))
        /\ \A k \in Kept_ \cap SpecTier_, d \in HighQuality_ \ Kept_ :
              \/ k.spec_score > d.spec_score
              \/ k.spec_score = d.spec_score /\ k.idx < d.idx
        /\ FuzzyKept(Min(10, Cardinality(FuzzyTier_)))

\* three high-quality candidates, a spec-tier candidate of a lower score that
\* was dropped, and more than 10 fuzzy-tier candidates of which 10 were kept
C19_Witness ==
    /\ Ranked_
    /\ Cardinality(HighQuality_) = 3
    /\ SpecTier_ \ HighQuality_ # {}
    /\ (SpecTier_ \ HighQuality_) \cap Kept_ = {}
    /\ Cardinality(FuzzyTier_) > 10
    /\ Len(call.ret) = 13

\* C20 as stated: when fewer than 3 spec-tier candidates have
\* spec_score >= 60, every spec-tier candidate is kept in the shortlist, and
\* fuzzy-tier candidates are added only until the shortlist holds 40 entries.
C20_EverySpecKept ==
    (Ranked_ /\ Cardinality(HighQuality_) < 3) =>
        /\ SpecTier_ \subseteq Kept_
        /\ Cardinality(Kept_ \cap FuzzyTier_)
              = Min(Cardinality(FuzzyTier_), Max(0, 40 - Cardinality(SpecTier_)))

\* C20, amended: in the other case the shortlist holds every spec-tier
\* candidate when there are at most 40 of them, and else the 40 that rank
\* highest (spec_score, then combined_score, then catalog order); fuzzy-tier
\* candidates, those of the highest combined_score, fill the shortlist up to
\* 40 entries.
C20_SpecKeptUpToLimit ==
    (Ranked_ /\ Cardinality(HighQuality_) < 3) =>
        /\ Shortlist_
        /\ Cardinality(Kept_ \cap SpecTier_) = Min(40, Cardinality(SpecTier_))
        /\ \A k \in Kept_ \cap SpecTier_, d \in SpecTier_ \ Kept_ :
              \/ k.spec_score > d.spec_score
              \/ k.spec_score = d.spec_score /\ k.combined_score > d.combined_score
              \/ k.spec_score = d.spec_score /\ k.combined_score = d.combined_score
                 /\ k.idx < d.idx
        /\ FuzzyKept(Min(Cardinality(FuzzyTier_), Max(0, 40 - Cardinality(SpecTier_))))

\* more than 40 spec-tier candidates, two of them of high quality: 40 were
\* kept and no fuzzy-tier candidate was added
C20_Witness ==
    /\ Ranked_
    /\ Cardinality(HighQuality_) = 2
    /\ Cardinality(SpecTier_) > 40
    /\ FuzzyTier_ # {}
    /\ Len(call.ret) = 40
    /\ Kept_ \subseteq SpecTier_

\* C21: in every shortlist each spec-tier entry precedes each fuzzy-tier
\* entry, and within one tier the entries are in non-increasing spec_score,
\* ties broken by non-increasing combined_score.
C21_ShortlistOrder ==
    Ranked_ =>
        \A i \in 1..Len(call.ret), j \in 1..Len(call.ret) :
            i < j =>
                /\ ~(call.ret[i].tier = "fuzzy" /\ call.ret[j].tier = "spec")
                /\ call.ret[i].tier = call.ret[j].tier =>
                      /\ call.ret[i].spec_score >= call.ret[j].spec_score
                      /\ call.ret[i].spec_score = call.ret[j].spec_score =>
                            call.ret[i].combined_score >= call.ret[j].combined_score

\* a shortlist of both tiers in which two spec-tier entries of one spec_score
\* were exchanged for their combined_score
C21_Witness ==
    /\ Ranked_
    /\ \E i \in 1..Len(call.ret) : call.ret[i].tier = "fuzzy"
    /\ \E i \in 1..Len(call.ret), j \in 1..Len(call.ret) :
          /\ i < j
          /\ call.ret[i].tier = "spec" /\ call.ret[j].tier = "spec"
          /\ call.ret[i].spec_score = call.ret[j].spec_score
          /\ call.ret[i].combined_score > call.ret[j].combined_score
          /\ call.ret[i].idx > call.ret[j].idx

\* term a occurs in name x and term b in name y, and a does not occur in y
Exclusive(x, y, a, b) == Contains(x, a) /\ Contains(y, b) /\ ~Contains(y, a)

\* C22: a literal term pair (A, B) reports a conflict only when one name
\* contains A and the other contains B without also containing A; two names
\* that both contain both terms, such as two identical no-brake wheels, are
\* not reported as conflicting by a literal pair.
C22_LiteralPairExclusive ==
    (call.op = "has_product_conflict" /\ call.done /\ call.ret) =>
        \/ VolumeConflict(call.source_name, call.target_name)
        \/ \E k \in 1..Len(PRODUCT_LINE_CONFLICTS) :
              LET a == Lower(PRODUCT_LINE_CONFLICTS[k][1])
                  b == Lower(PRODUCT_LINE_CONFLICTS[k][2])
              IN  \/ Exclusive(Lower(call.source_name), Lower(call.target_name), a, b)
                  \/ Exclusive(Lower(call.target_name), Lower(call.source_name), a, b)

\* C23: check_product_line_conflict is symmetric, also for term pairs of
\* which one term is a substring of the other.
C23_ConflictSymmetric ==
    (call.op = "check_product_line_conflict" /\ call.done) => call.ret = call.swapped

\* total_weight and ten times matched_weight of the call
TotalWeight_ ==
    WeightedTotal(spec_weights, call.source_specs)
    + IdBonus(call.source_specs, call.target_specs)[2]
    + NumBonus(call.source_specs, call.target_specs)[2]

Matched10_ ==
    WeightedMatched10(spec_weights, call.source_specs, call.target_specs)
    + 10 * IdBonus(call.source_specs, call.target_specs)[1]
    + 10 * NumBonus(call.source_specs, call.target_specs)[1]

\* C24: calculate_spec_score returns 100 * matched_weight / total_weight
\* rounded to the nearest integer (not truncated) whenever total_weight > 0.
C24_RoundedToNearest ==
    (Scored_ /\ DOMAIN call.source_specs # {} /\ TotalWeight_ > 0) =>
        2 * Abs(10 * Matched10_ - call.ret * TotalWeight_) <= TotalWeight_

\* C24, amended: the result is the percentage truncated to an integer, never
\* rounded up: ret <= 100 * matched_weight / total_weight < ret + 1, but for
\* the exact percentages 29, 57 and 58, whose double product lies just below
\* the integer and is truncated to 28, 56 and 57.
C24_Truncated ==
    (Scored_ /\ DOMAIN call.source_specs # {} /\ TotalWeight_ > 0) =>
        \/ /\ call.ret * TotalWeight_ <= 10 * Matched10_
           /\ 10 * Matched10_ < (call.ret + 1) * TotalWeight_
           /\ ~(10 * Matched10_ = call.ret * TotalWeight_ /\ call.ret \in {29, 57, 58})
        \/ /\ 10 * Matched10_ = (call.ret + 1) * TotalWeight_
           /\ call.ret + 1 \in {29, 57, 58}

\* equal wattage and one common identifier of two: 55 of 70, 78.57 percent,
\* returned as 78
C24_Witness ==
    /\ Scored_
    /\ TotalWeight_ = 70
    /\ Matched10_ = 550
    /\ call.ret = 78

Sized_ == call.op = "score_names" /\ call.done

\* what a key adds to matched_weight in the scored call, in tenths
Credit10_(key, weight) == KeyMatched10(<<key, weight>>, call.source_specs, call.target_specs)

\* the number of a "value unit" string, in thousandths
ValueMilli(v) == FloatMilli(FirstNumber(v, 0))

\* C25: with the key volume on both sides in the same unit, numerically equal
\* values get the full weight, and no credit at all is given only to values
\* that differ (by more than the tolerance of the key).
C25_VolumeCredit ==
    (/\ Sized_
     /\ "volume" \in DOMAIN call.source_specs /\ "volume" \in DOMAIN call.target_specs
     /\ call.source_specs.volume[Len(call.source_specs.volume)]
            = call.target_specs.volume[Len(call.target_specs.volume)]) =>
        /\ ValueMilli(call.source_specs.volume) = ValueMilli(call.target_specs.volume)
                => Credit10_("volume", 25) = 250
        /\ Credit10_("volume", 25) = 0
                => ValueMilli(call.source_specs.volume) # ValueMilli(call.target_specs.volume)

\* the size of a size_inch value, a fraction n/d or a decimal number, in
\* 16000ths of an inch
InchValue(v) ==
    IF v[2] = "/" THEN (16000 * NumValue[v[1]]) \div NumValue[v[3]]
    ELSE 16 * ValueMilli(v)

\* C29: for key size_inch credit is given only to sizes that are numerically
\* equal (the full weight) or differ by at most 5% of the source size, sizes
\* written as fractions included: 1/2 inch against 1/4 inch earns none.
C29_InchCredit ==
    (/\ Sized_
     /\ "size_inch" \in DOMAIN call.source_specs
     /\ "size_inch" \in DOMAIN call.target_specs) =>
        LET src == InchValue(call.source_specs.size_inch)
            tgt == InchValue(call.target_specs.size_inch)
        IN  /\ Credit10_("size_inch", 30) > 0 => (src = tgt \/ WithinPct(src, tgt, 5))
            /\ Credit10_("size_inch", 30) = 300 => src = tgt

\* C26: the price-match normalize_text is idempotent: normalizing a normalized
\* string changes nothing.
C26_PmNormalizeIdempotent ==
    (call.op = "pm_normalize_text" /\ call.done) => call.twice = call.once

RanksAbove(d, k) ==
    \/ d.spec_score > k.spec_score
    \/ d.spec_score = k.spec_score /\ d.combined_score > k.combined_score

\* C28: truncation agrees with the final ranking: no candidate the quality
\* gate dropped ranks above a kept candidate of the same tier under the final
\* ordering, spec_score descending and then combined_score descending.
C28_TruncationAgrees ==
    Ranked_ =>
        \A d \in (SpecTier_ \cup FuzzyTier_) \ Kept_, k \in Kept_ :
            d.tier = k.tier => ~RanksAbove(d, k)

\* C30: over any sequence of ai_extract_product_type calls in one process at
\* most one request is made per distinct non-empty product name (none for
\* the empty name): a call for a name already in the cache issues no request,
\* leaves the cache alone and returns the cached value, and a name whose
\* request raised stays cached as the empty string.
C30_OneRequestPerName ==
    /\ [](call.op = "ai_extract_product_type" =>
            /\ \A n \in TypeCallNames : call.requested[n] <= 1
            /\ call.requested[<< >>] = 0
            /\ \A n \in call.raised :
                  [key |-> n, value |-> << >>] \in product_type_cache)
    /\ [][(/\ call.op = "ai_extract_product_type"
           /\ call'.has_client
           /\ \E e \in product_type_cache : e.key = call'.product_name) =>
              /\ call'.requested = call.requested
              /\ product_type_cache' = product_type_cache
              /\ call'.ret = CachedType(product_type_cache, call'.product_name)]_vars

\* a name whose request raised was asked for again: one request, and the
\* empty string returned
C30_Witness ==
    /\ call.op = "ai_extract_product_type"
    /\ call.product_name \in call.raised
    /\ call.has_client
    /\ call.asked[call.product_name] >= 2
    /\ call.requested[call.product_name] = 1
    /\ call.ret = << >>
    /\ \E n \in TypeCallNames :
          /\ call.asked[n] >= 1
          /\ [key |-> n, value |-> TypeText] \in product_type_cache

====
